---------------------------- MODULE Spec2Model ----------------------------
(***************************************************************************)
(* A model of the yields-fun plugin: the token-pair trust manager, the     *)
(* pool-monitor polling job, the Raydium CLM action layer, the providers'  *)
(* risk formulas and the providers' retry and cache helpers.               *)
(*                                                                         *)
(* Each subsystem has its own specification (SpecTrust, SpecJob, ...): the *)
(* variables of the other subsystems keep their initial values there.      *)
(* Numbers are JavaScript doubles in the source. The model draws the       *)
(* inputs from grids on which every quotient the code forms is an integer  *)
(* (or scales the value, as said where it is done), so that integer        *)
(* arithmetic gives the code's value exactly.                              *)
(***************************************************************************)
EXTENDS Integers, Sequences, FiniteSets, TLC

VARIABLES
    now,                 \* Date.now(), in milliseconds
    trustScoreCache,     \* TokenPairTrustManager.trustScoreCache
    trustResult,         \* what the last getTrustState call returned
    monitoredPools,      \* PoolMonitorJob.monitoredPools of a long-lived job
    stateMonitoredPools, \* the runtime State's "monitoredPools" entry
    stateAliases,        \* keys whose State entry is the job's own pool object
    jobLast,             \* what the last job operation did
    positions,           \* the owner's on-chain CLMM positions in the pool
    actLast,             \* what the last action-layer call did
    riskLast,            \* the opportunity the last provider mapping produced
    baseClass,           \* which YieldProvider class the providers extend
    memCache,            \* YieldProvider.cache (NodeCache)
    store,               \* the injected ICacheManager's contents
    fetchLast,           \* what the last provider fetch did
    rayCache,            \* RaydiumProvider.cache of a long-lived provider
    provLast,            \* what the last provider entry point returned
    dexCache,            \* DexScreenerProvider.cache of a long-lived provider
    dexLast,             \* what the last getBestDexForPair call returned
    clmLast,             \* what the last opportunity evaluation produced
    calls,               \* the checkPool invocations in flight
    issued,              \* the position actions checkPool invocations issued
    vault,               \* the vault program's accounts
    overflowChecks,      \* whether the program's build checks u64 arithmetic
    vaultLast,           \* what the last vault instruction did
    watchlist,           \* the memories of the table "watchlist_memories"
    watchLast            \* what the last checkWatchlistAlerts returned

vars == << now, trustScoreCache, trustResult, monitoredPools,
           stateMonitoredPools, stateAliases, jobLast, positions, actLast, riskLast,
           baseClass, memCache, store, fetchLast, rayCache, provLast,
           dexCache, dexLast, clmLast, calls, issued, vault, overflowChecks,
           vaultLast, watchlist, watchLast >>

trustVars == << trustScoreCache, trustResult >>
jobVars   == << monitoredPools, stateMonitoredPools, stateAliases, jobLast >>
actVars   == << positions, actLast >>
riskVars  == << riskLast >>
cacheVars == << baseClass, memCache, store, fetchLast >>
provVars  == << rayCache, provLast >>
dexVars   == << dexCache, dexLast >>
clmVars   == << clmLast >>
raceVars  == << calls, issued >>
vaultVars == << vault, overflowChecks, vaultLast >>
watchVars == << watchlist, watchLast >>

Null == [kind |-> "null"]

Min(a, b) == IF a <= b THEN a ELSE b
Max(a, b) == IF a >= b THEN a ELSE b
Abs(a) == IF a >= 0 THEN a ELSE 0 - a

(***************************************************************************)
(* Time.                                                                   *)
(***************************************************************************)
Minute == 60 * 1000

\* The clock runs up to MaxMinutes minutes.
MaxMinutes == 6

\* Time passes between two requests: one minute, or five at once.
Tick ==
    /\ \E d \in {Minute, 5 * Minute} :
          /\ now + d <= MaxMinutes * Minute
          /\ now' = now + d
    /\ UNCHANGED << vaultVars, watchVars, dexVars, clmVars, raceVars, trustVars, jobVars, actVars, riskVars, provVars, cacheVars >>

(***************************************************************************)
(* TokenPairTrustManager                                                   *)
(***************************************************************************)
CACHE_DURATION == 5 * 60 * 1000

\* What Birdeye's token_security answers (or the defaults taken when the
\* request failed and securityInfo is null): a token with none of the other
\* flags, or with one of them.
SecurityInputs ==
    { [ isHoneypot |-> h, hasRenounced |-> r, hasBlacklist |-> f = "blacklist",
        hasMintFunction |-> f = "mint",
        top10HolderPercent |-> IF f = "top10" THEN 60 ELSE 0 ] :
      h \in BOOLEAN, r \in BOOLEAN,
      f \in {"none", "blacklist", "mint", "top10"} }

\* What Birdeye's market_info and DexScreener's SOL pair answer. The grids
\* make every score below an integer and their sum a multiple of 5.
TradingInputs ==
    [ volume24h : {0, 100000},
      liquidityUSD : {5000, 100000},
      priceChange24h : {-60, 0},
      uniqueHolders : {500, 1000},
      buyTaxBps : {0, 2000},
      sellTaxBps : {0} ]

\* The deductions without the final Math.max(0, securityScore).
SecurityScoreUnclamped(security, trading) ==
    100
    - (IF security.isHoneypot THEN 100 ELSE 0)
    - (IF security.hasBlacklist THEN 20 ELSE 0)
    - (IF security.hasMintFunction THEN 30 ELSE 0)
    - (IF ~security.hasRenounced THEN 10 ELSE 0)
    - (IF security.top10HolderPercent > 50 THEN 20 ELSE 0)
    - (IF trading.buyTaxBps > 1000 \/ trading.sellTaxBps > 1000
          THEN 30 ELSE 0)

\* let securityScore = 100; ...; securityScore = Math.max(0, securityScore)
SecurityScore(security, trading) ==
    Max(0, 100
           - (IF security.isHoneypot THEN 100 ELSE 0)
           - (IF security.hasBlacklist THEN 20 ELSE 0)
           - (IF security.hasMintFunction THEN 30 ELSE 0)
           - (IF ~security.hasRenounced THEN 10 ELSE 0)
           - (IF security.top10HolderPercent > 50 THEN 20 ELSE 0)
           - (IF trading.buyTaxBps > 1000 \/ trading.sellTaxBps > 1000
                 THEN 30 ELSE 0))

\* calculateScores: five sub-scores and their 0.2-weighted sum.
calculateScores(security, trading, at) ==
    LET volumeScore == Min(100, (trading.volume24h * 100) \div 50000)
        liquidityScore == Min(100, (trading.liquidityUSD * 100) \div 100000)
        volatilityScore == Max(0, 100 - Abs(trading.priceChange24h) * 2)
        transactionScore == Min(100, (trading.uniqueHolders * 100) \div 1000)
        securityScore == SecurityScore(security, trading)
    IN  [ volumeScore |-> volumeScore,
          liquidityScore |-> liquidityScore,
          volatilityScore |-> volatilityScore,
          transactionScore |-> transactionScore,
          securityScore |-> securityScore,
          overallTrustScore |->
              (volumeScore + liquidityScore + volatilityScore
               + transactionScore + securityScore) \div 5,
          lastUpdated |-> at ]

\* The warnings getTrustState collects, as a set.
TrustWarnings(security, trading) ==
    (IF security.isHoneypot THEN {"honeypot"} ELSE {})
    \cup (IF security.hasBlacklist THEN {"blacklist"} ELSE {})
    \cup (IF security.hasMintFunction THEN {"mint"} ELSE {})
    \cup (IF security.top10HolderPercent > 50 THEN {"concentration"} ELSE {})
    \cup (IF trading.buyTaxBps > 1000 \/ trading.sellTaxBps > 1000
             THEN {"taxes"} ELSE {})
    \cup (IF trading.liquidityUSD < 10000 THEN {"liquidity"} ELSE {})
    \cup (IF trading.uniqueHolders < 100 THEN {"holders"} ELSE {})

\* recommendations.shouldProvide
ShouldProvide(metrics) == metrics.overallTrustScore >= 70

\* recommendations.riskLevel
RiskLevel(metrics) ==
    IF metrics.overallTrustScore >= 80 THEN "low"
    ELSE IF metrics.overallTrustScore >= 60 THEN "medium"
    ELSE IF metrics.overallTrustScore >= 40 THEN "high"
    ELSE "extreme"

\* The trust state getTrustState builds on a cache miss.
BuildTrustState(security, trading, at) ==
    LET metrics == calculateScores(security, trading, at)
    IN  [ kind |-> "trustState",
          security |-> security,
          trading |-> trading,
          metrics |-> metrics,
          recommendations |->
              [ shouldProvide |-> ShouldProvide(metrics),
                riskLevel |-> RiskLevel(metrics),
                maxExposure |-> Min(trading.liquidityUSD \div 100,
                                    metrics.overallTrustScore * 100),
                warning |-> TrustWarnings(security, trading) ] ]

TrustInit ==
    /\ trustScoreCache = Null
    /\ trustResult = Null

\* getTrustState for the one pair of the model: a fresh cached state is
\* returned as it is; otherwise the metrics are fetched, the state is built,
\* cached and returned.
TrustCacheFresh ==
    /\ trustScoreCache # Null
    /\ now - trustScoreCache.metrics.lastUpdated < CACHE_DURATION

GetTrustStateCached ==
    /\ TrustCacheFresh
    /\ trustResult' = trustScoreCache
    /\ UNCHANGED << vaultVars, watchVars, dexVars, clmVars, raceVars, now, trustScoreCache, jobVars, actVars, riskVars, provVars, cacheVars >>

GetTrustStateFresh ==
    /\ ~TrustCacheFresh
    /\ \E security \in SecurityInputs, trading \in TradingInputs :
          LET ts == BuildTrustState(security, trading, now)
          IN  /\ trustScoreCache' = ts
              /\ trustResult' = ts
    /\ UNCHANGED << vaultVars, watchVars, dexVars, clmVars, raceVars, now, jobVars, actVars, riskVars, provVars, cacheVars >>

(***************************************************************************)
(* RaydiumClmActions                                                       *)
(*                                                                         *)
(* The chain holds one CLMM pool, with mints PoolMintA and PoolMintB, and  *)
(* the owner's positions in it: positions[i] is the liquidity of the i-th. *)
(* The SDK handle (this.clmm) is the environment: each of its calls either *)
(* answers or throws, as the env argument of an operation says.            *)
(***************************************************************************)
PoolMintA == "So1"
PoolMintB == "USDC"

\* At most MaxPositions positions of the owner in the pool.
MaxPositions == 2

Liquidities == {0, 40, 100}

PositionLists ==
    UNION { [1..n -> Liquidities] : n \in 0..MaxPositions }

\* How the SDK behaves during one removeLiquidity: which call throws, and
\* for "transaction" the index of the position whose transaction throws.
RemoveEnvs ==
    [ throws : {"none", "getPools", "getPositionsByOwner"}, at : {0} ]
    \cup [ throws : {"transaction"}, at : 1..MaxPositions ]

\* How the SDK behaves during one addLiquidity.
AddEnvs == [ throws : {"none", "getPools"} ]

\* getPoolInfo: the pool whose mints are exactly the two addresses.
PoolFound(baseAddress, quoteAddress) ==
    baseAddress = PoolMintA /\ quoteAddress = PoolMintB

\* position.liquidity.mul(percentageToRemove).div(100) is taken off.
Decreased(liquidity, percentageToRemove) ==
    liquidity - ((liquidity * percentageToRemove) \div 100)

\* removeLiquidity: [success, positions] after the call. The positions
\* before the one whose transaction throws have been decreased.
removeLiquidity(pos, baseAddress, quoteAddress, percentageToRemove, hasWallet, env) ==
    IF env.throws = "getPools" \/ ~PoolFound(baseAddress, quoteAddress)
    THEN [ success |-> FALSE, positions |-> pos ]
    ELSE IF ~hasWallet \/ env.throws = "getPositionsByOwner"
    THEN [ success |-> FALSE, positions |-> pos ]
    ELSE LET stop == IF env.throws = "transaction" /\ env.at <= Len(pos)
                     THEN env.at ELSE Len(pos) + 1
         IN  [ success |-> stop > Len(pos),
               positions |->
                   [ i \in 1..Len(pos) |->
                       IF i < stop
                       THEN Decreased(pos[i], percentageToRemove)
                       ELSE pos[i] ] ]

\* addLiquidity: [success, positions] after the call. calculateTokenAmounts
\* calls upperPrice.div(lowerPrice) on the numbers tickToPrice returns: a
\* number has no div, so the call throws once the pool is found, before any
\* transaction is created. Every path ends in the catch block.
addLiquidity(pos, baseAddress, quoteAddress, lowerTick, upperTick, amountUsd, hasWallet, env) ==
    [ success |-> FALSE, positions |-> pos ]

\* adjustPosition as it would be with a rollback: a failed add after a
\* successful removal puts the liquidity back.
adjustPositionWithRollback(pos, baseAddress, quoteAddress, newLowerTick, newUpperTick, targetAmountUsd, hasWallet, renv, aenv) ==
    LET removed == removeLiquidity(pos, baseAddress, quoteAddress, 100,
                                   hasWallet, renv)
        added == addLiquidity(removed.positions, baseAddress, quoteAddress,
                              newLowerTick, newUpperTick, targetAmountUsd,
                              hasWallet, aenv)
    IN  [ success |-> TRUE,
          removeOk |-> removed.success,
          addOk |-> added.success,
          positions |-> IF removed.success /\ ~added.success
                        THEN pos ELSE added.positions ]

\* adjustPosition: remove 100%, then add; neither call throws (both catch),
\* so the catch block of adjustPosition is never entered.
adjustPosition(pos, baseAddress, quoteAddress, newLowerTick, newUpperTick, targetAmountUsd, hasWallet, renv, aenv) ==
    LET removed == removeLiquidity(pos, baseAddress, quoteAddress, 100,
                                   hasWallet, renv)
        added == addLiquidity(removed.positions, baseAddress, quoteAddress,
                              newLowerTick, newUpperTick, targetAmountUsd,
                              hasWallet, aenv)
    IN  [ success |-> TRUE,
          removeOk |-> removed.success,
          addOk |-> added.success,
          positions |-> added.positions ]

ActInit ==
    /\ positions \in PositionLists
    /\ actLast = Null

ActionAddresses == {"So1", "so1"}

\* actions.removeLiquidity(base, quote, percentage, state)
RemoveLiquidityCall ==
    /\ \E base \in ActionAddresses, pct \in {50, 100}, hasWallet \in BOOLEAN,
          env \in RemoveEnvs :
          LET r == removeLiquidity(positions, base, PoolMintB, pct,
                                   hasWallet, env)
          IN  /\ positions' = r.positions
              /\ actLast' = [ kind |-> "removeLiquidity",
                              before |-> positions,
                              percentage |-> pct,
                              success |-> r.success ]
    /\ UNCHANGED << vaultVars, watchVars, dexVars, clmVars, raceVars, now, trustVars, jobVars, riskVars, provVars, cacheVars >>

\* actions.addLiquidity(base, quote, lowerTick, upperTick, amountUsd, state)
AddLiquidityCall ==
    /\ \E base \in ActionAddresses, hasWallet \in BOOLEAN, env \in AddEnvs :
          LET r == addLiquidity(positions, base, PoolMintB, 10, 20, 100,
                                hasWallet, env)
          IN  /\ positions' = r.positions
              /\ actLast' = [ kind |-> "addLiquidity",
                              before |-> positions,
                              success |-> r.success ]
    /\ UNCHANGED << vaultVars, watchVars, dexVars, clmVars, raceVars, now, trustVars, jobVars, riskVars, provVars, cacheVars >>

\* actions.adjustPosition(base, quote, lowerTick, upperTick, amountUsd, state)
AdjustPositionCall ==
    /\ \E base \in ActionAddresses, hasWallet \in BOOLEAN,
          renv \in RemoveEnvs, aenv \in AddEnvs :
          LET r == adjustPosition(positions, base, PoolMintB, 10, 20, 100,
                                  hasWallet, renv, aenv)
          IN  /\ positions' = r.positions
              /\ actLast' = [ kind |-> "adjustPosition",
                              before |-> positions,
                              removeOk |-> r.removeOk,
                              addOk |-> r.addOk,
                              success |-> r.success ]
    /\ UNCHANGED << vaultVars, watchVars, dexVars, clmVars, raceVars, now, trustVars, jobVars, riskVars, provVars, cacheVars >>

\* Outside the plugin the owner opens a position in the pool.
ChainOpensPosition ==
    /\ Len(positions) < MaxPositions
    /\ \E l \in Liquidities \ {0} : positions' = Append(positions, l)
    /\ actLast' = Null
    /\ UNCHANGED << vaultVars, watchVars, dexVars, clmVars, raceVars, now, trustVars, jobVars, riskVars, provVars, cacheVars >>

\* A string execute returns; command is the one a "Missing parameters for
\* <command>" names.
Text(text, command) ==
    [ kind |-> "text", text |-> text, command |-> command, success |-> FALSE ]

\* JSON.stringify of a { success, message | error } envelope.
Envelope(success) ==
    [ kind |-> "envelope", text |-> "", command |-> "", success |-> success ]

\* JSON.stringify of what an Orca method returns ({ quote, instructions }).
Instructions ==
    [ kind |-> "instructions", text |-> "", command |-> "", success |-> TRUE ]

\* The message of raydiumClmActions.execute: ticks says whether lowerTick,
\* upperTick and amountUsd are all there; no percentage is given.
RaydiumMessages ==
    [ command : {"", "addLiquidity", "removeLiquidity", "adjustPosition",
                 "swap"},
      baseTokenAddress : {"", "So1"},
      ticks : BOOLEAN ]

\* A parameter the command requires is absent from the message.
RaydiumMissing(message) ==
    \/ message.command = ""
    \/ message.baseTokenAddress = ""
    \/ /\ message.command \in {"addLiquidity", "adjustPosition"}
       /\ ~message.ticks

\* How the SDK behaves during one execute: it is asked only when the class
\* was constructed and the message has what removing liquidity needs.
RaydiumExecuteEnvs(message, sdkReady) ==
    IF /\ sdkReady
       /\ ~RaydiumMissing(message)
       /\ message.command \in {"removeLiquidity", "adjustPosition"}
    THEN RemoveEnvs
    ELSE {[throws |-> "none", at |-> 0]}

\* raydiumClmActions.execute: [result, positions, called, raised]. called
\* says whether a method of the action class was invoked, raised whether a
\* call inside it threw. sdkReady says whether new RaydiumClmActions()
\* returns (initSdk of the config module hands it an sdk) or throws.
raydiumExecute(pos, message, hasWallet, sdkReady, renv) ==
    LET quiet(result) == [ result |-> result, positions |-> pos,
                           called |-> FALSE, raised |-> FALSE ]
        removed == removeLiquidity(pos, message.baseTokenAddress, PoolMintB,
                                   100, hasWallet, renv)
        added == addLiquidity(pos, message.baseTokenAddress, PoolMintB,
                              10, 20, 100, hasWallet, [throws |-> "none"])
        adjusted == adjustPosition(pos, message.baseTokenAddress, PoolMintB,
                                   10, 20, 100, hasWallet, renv,
                                   [throws |-> "none"])
    IN  IF ~sdkReady THEN quiet(Text("Failed to execute CLM action", ""))
        ELSE IF message.command = "" \/ message.baseTokenAddress = ""
        THEN quiet(Text("Missing required parameters", ""))
        ELSE IF message.command = "addLiquidity"
        THEN IF ~message.ticks
             THEN quiet(Text("Missing parameters for", "addLiquidity"))
             ELSE [ result |-> Envelope(added.success),
                    positions |-> added.positions,
                    called |-> TRUE, raised |-> ~added.success ]
        ELSE IF message.command = "removeLiquidity"
        THEN [ result |-> Envelope(removed.success),
               positions |-> removed.positions,
               called |-> TRUE, raised |-> ~removed.success ]
        ELSE IF message.command = "adjustPosition"
        THEN IF ~message.ticks
             THEN quiet(Text("Missing parameters for", "adjustPosition"))
             ELSE [ result |-> Envelope(adjusted.success),
                    positions |-> adjusted.positions,
                    called |-> TRUE,
                    raised |-> ~adjusted.removeOk \/ ~adjusted.addOk ]
        ELSE quiet(Text("Unknown command", ""))

\* The message of orcaActions.execute: positionMint is absent (""), a
\* public key ("mint") or no public key ("bad").
OrcaMessages ==
    [ command : {"", "harvestPosition", "closePosition", "swap"},
      positionMint : {"", "mint", "bad"} ]

\* The command or the wallet is absent, or the position the command names.
OrcaMissing(message, hasWallet) ==
    \/ message.command = ""
    \/ ~hasWallet
    \/ /\ message.command \in {"harvestPosition", "closePosition"}
       /\ message.positionMint = ""

\* orcaActions.execute: [result, called, raised]. rpcUrlValid says whether
\* new Connection(RPC_URL) returns, sdkThrows whether the whirlpools SDK
\* throws (the method logs and rethrows).
orcaExecute(message, hasWallet, rpcUrlValid, sdkThrows) ==
    LET quiet(result) == [ result |-> result, called |-> FALSE,
                           raised |-> FALSE ]
    IN  IF ~rpcUrlValid THEN quiet(Envelope(FALSE))
        ELSE IF message.command = "" \/ ~hasWallet
        THEN quiet(Text("Missing required parameters", ""))
        ELSE IF message.command \in {"harvestPosition", "closePosition"}
        THEN IF message.positionMint = ""
             THEN quiet(Text("Missing parameters for", message.command))
             ELSE IF message.positionMint = "bad"
             THEN quiet(Envelope(FALSE))
             ELSE [ result |-> IF sdkThrows THEN Envelope(FALSE)
                               ELSE Instructions,
                    called |-> TRUE, raised |-> sdkThrows ]
        ELSE quiet(Text("Unknown command", ""))

\* raydiumClmActions.execute(runtime, message, state)
RaydiumExecute ==
    /\ \E message \in RaydiumMessages, hasWallet \in BOOLEAN,
          sdkReady \in BOOLEAN :
       \E renv \in RaydiumExecuteEnvs(message, sdkReady) :
          LET r == raydiumExecute(positions, message, hasWallet, sdkReady,
                                  renv)
          IN  /\ positions' = r.positions
              /\ actLast' = [ kind |-> "execute", module |-> "raydium",
                              command |-> message.command,
                              missing |-> RaydiumMissing(message),
                              called |-> r.called,
                              raised |-> r.raised,
                              result |-> r.result ]
    /\ UNCHANGED << vaultVars, watchVars, dexVars, clmVars, raceVars, now, trustVars, jobVars, riskVars, provVars, cacheVars >>

\* orcaActions.execute(runtime, message, state)
OrcaExecute ==
    /\ \E message \in OrcaMessages, hasWallet \in BOOLEAN,
          rpcUrlValid \in BOOLEAN, sdkThrows \in BOOLEAN :
          LET r == orcaExecute(message, hasWallet, rpcUrlValid, sdkThrows)
          IN  actLast' = [ kind |-> "execute", module |-> "orca",
                           command |-> message.command,
                           missing |-> OrcaMissing(message, hasWallet),
                           called |-> r.called,
                           raised |-> r.raised,
                           result |-> r.result ]
    /\ UNCHANGED << vaultVars, watchVars, dexVars, clmVars, raceVars, now, positions, trustVars, jobVars, riskVars, provVars,
                    cacheVars >>

(***************************************************************************)
(* PoolMonitorJob                                                          *)
(*                                                                         *)
(* monitoredPools is the map of a long-lived PoolMonitorJob object (the    *)
(* class is exported); poolMonitorJob.run builds a job object of its own   *)
(* on every invocation. A map is a function from pool keys to pools.       *)
(***************************************************************************)
checkInterval == 5 * 60 * 1000

ToLower(a) ==
    CASE a = "So1" -> "so1"
      [] a = "so1" -> "so1"
      [] a = "Ray" -> "ray"
      [] a = "USDC" -> "usdc"

BaseAddresses == {"So1", "Ray"}
QuoteAddresses == {"USDC"}

\* getPoolKey: `${base.toLowerCase()}-${quote.toLowerCase()}`
getPoolKey(baseAddress, quoteAddress) ==
    << ToLower(baseAddress), ToLower(quoteAddress) >>

PoolKeys == { getPoolKey(b, q) : b \in BaseAddresses, q \in QuoteAddresses }

EmptyMap == [ k \in {} |-> Null ]

\* Map.set / obj[key] = value
MapSet(map, key, value) ==
    [ k \in DOMAIN map \cup {key} |-> IF k = key THEN value ELSE map[k] ]

\* What evaluator.evaluatePair answers, as far as the job reads it.
Analysis(amm, volatility, volume, raydiumScore, provide) ==
    [ metrics |-> [ priceVolatility |-> volatility, volumeHealth |-> volume ],
      recommendation |->
          [ preferredAmm |-> amm,
            ammScores |-> [ raydium |-> raydiumScore, orca |-> 60 ],
            shouldProvide |-> provide ] ]

Analyses ==
    { Analysis("raydium", 10, 50, 80, TRUE),
      Analysis("raydium", 40, 50, 80, TRUE),
      Analysis("raydium", 10, 90, 80, FALSE),
      Analysis("orca", 10, 50, 50, TRUE) }

\* evaluatePair rejects (a request of a provider failed).
EvalThrows == [ kind |-> "throws" ]

Evaluations == Analyses \cup {EvalThrows}

\* shouldAdjustPosition as it would be if it compared the new analysis's
\* levels, not the differences, with the thresholds.
shouldAdjustPositionOnLevels(oldAnalysis, newAnalysis) ==
    \/ newAnalysis.metrics.priceVolatility > 20
    \/ newAnalysis.metrics.volumeHealth > 30

\* shouldAdjustPosition. |old - new| / old > 0.2 is 5 * |old - new| > old
\* for every old >= 0 (x / 0 is Infinity for x > 0 and NaN for x = 0).
shouldAdjustPosition(oldAnalysis, newAnalysis) ==
    LET volatilityChange == Abs(oldAnalysis.metrics.priceVolatility
                                - newAnalysis.metrics.priceVolatility)
        volumeChange == Abs(oldAnalysis.metrics.volumeHealth
                            - newAnalysis.metrics.volumeHealth)
        ammScoreChange ==
            \E amm \in DOMAIN oldAnalysis.recommendation.ammScores :
                5 * Abs(oldAnalysis.recommendation.ammScores[amm]
                        - newAnalysis.recommendation.ammScores[amm])
                    > oldAnalysis.recommendation.ammScores[amm]
    IN  volatilityChange > 20 \/ volumeChange > 30 \/ ammScoreChange

\* "Check if we need to switch AMMs"
SwitchNeeded(pool, analysis) ==
    analysis.recommendation.preferredAmm # pool.currentAmm

\* One call of the job into the action layer. The job passes no state, so
\* the action finds no agent wallet.
ActionCall(method, pool, pos, renv) ==
    LET r == IF method = "removeLiquidity"
             THEN removeLiquidity(pos, pool.baseAddress, pool.quoteAddress,
                                  100, FALSE, renv)
             ELSE adjustPosition(pos, pool.baseAddress, pool.quoteAddress,
                                 10, 20, 100, FALSE, renv, [throws |-> "none"])
    IN  [ call |-> [ method |-> method, base |-> pool.baseAddress,
                     success |-> r.success ],
          positions |-> r.positions ]

\* The private adjustPosition of the job: the calls it makes.
JobAdjustCalls(pool, analysis, pos, renv) ==
    IF ~analysis.recommendation.shouldProvide
    THEN IF pool.currentAmm = "raydium"
         THEN << ActionCall("removeLiquidity", pool, pos, renv) >>
         ELSE << >>
    ELSE IF analysis.recommendation.preferredAmm = "raydium"
         THEN << ActionCall("adjustPosition", pool, pos, renv) >>
         ELSE << >>

\* checkPool on a job whose map is `map`, with the State's entry `smap`
\* (stateGiven says whether a State was passed; aliased holds the keys whose
\* State entry is the very object the map holds). `analysis` is what
\* evaluatePair answers if it is asked.
checkPool(map, smap, aliased, poolKey, stateGiven, at, analysis, pos, renv) ==
    LET same == [ map |-> map, smap |-> smap, aliased |-> aliased,
                  evaluated |-> FALSE, threw |-> FALSE, calls |-> << >>,
                  positions |-> pos ]
    IN
    IF poolKey \notin DOMAIN map THEN same
    ELSE IF at - map[poolKey].lastCheck < checkInterval THEN same
    ELSE IF analysis = EvalThrows THEN [ same EXCEPT !.threw = TRUE ]
    ELSE
      LET pool == map[poolKey]
          switch == IF SwitchNeeded(pool, analysis)
                       /\ pool.currentAmm = "raydium"
                    THEN << ActionCall("removeLiquidity", pool, pos, renv) >>
                    ELSE << >>
          pos1 == IF switch = << >> THEN pos ELSE switch[1].positions
          updated == [ pool EXCEPT !.lastCheck = at,
                                   !.lastAnalysis = analysis,
                                   !.currentAmm =
                                       analysis.recommendation.preferredAmm ]
          \* pool.lastAnalysis has been overwritten by now
          adjust == IF shouldAdjustPosition(updated.lastAnalysis, analysis)
                    THEN JobAdjustCalls(updated, analysis, pos1, renv)
                    ELSE << >>
          pos2 == IF adjust = << >> THEN pos1 ELSE adjust[1].positions
          all == switch \o adjust
      IN  [ map |-> MapSet(map, poolKey, updated),
            smap |-> IF stateGiven \/ poolKey \in aliased
                     THEN MapSet(smap, poolKey, updated) ELSE smap,
            aliased |-> IF stateGiven THEN aliased \cup {poolKey} ELSE aliased,
            evaluated |-> TRUE,
            threw |-> FALSE,
            calls |-> [ i \in 1..Len(all) |-> all[i].call ],
            positions |-> pos2 ]

\* addPoolToMonitor: the map after the call.
addPoolToMonitor(map, baseAddress, quoteAddress, at, initialAnalysis) ==
    LET poolKey == getPoolKey(baseAddress, quoteAddress)
    IN  IF poolKey \in DOMAIN map THEN map
        ELSE MapSet(map, poolKey,
                    [ baseAddress |-> baseAddress,
                      quoteAddress |-> quoteAddress,
                      lastCheck |-> at,
                      lastAnalysis |-> initialAnalysis,
                      currentAmm |->
                          initialAnalysis.recommendation.preferredAmm ])

\* A pool as an earlier checkPool stored it in the State.
StoredPool(baseAddress, at, analysis) ==
    [ baseAddress |-> baseAddress, quoteAddress |-> "USDC",
      lastCheck |-> at, lastAnalysis |-> analysis,
      currentAmm |-> analysis.recommendation.preferredAmm ]

\* The "monitoredPools" entry of the State the runtime supplies.
SuppliedStates ==
    { EmptyMap,
      MapSet(EmptyMap, getPoolKey("So1", "USDC"),
             StoredPool("So1", 0, Analysis("raydium", 10, 50, 80, TRUE))),
      MapSet(MapSet(EmptyMap, getPoolKey("So1", "USDC"),
                    StoredPool("So1", 0, Analysis("raydium", 10, 50, 80, TRUE))),
             getPoolKey("Ray", "USDC"),
             StoredPool("Ray", 0, Analysis("orca", 10, 50, 50, TRUE))) }

\* The SDK behaviours the job's calls are tried against.
JobRemoveEnvs == { [ throws |-> "none", at |-> 0 ],
                   [ throws |-> "getPools", at |-> 0 ] }

\* The message of a run: with or without the two token addresses.
Messages ==
    { [ baseTokenAddress |-> b, quoteTokenAddress |-> "USDC" ] :
        b \in BaseAddresses }
    \cup { [ baseTokenAddress |-> "", quoteTokenAddress |-> "" ] }

JobInit ==
    /\ monitoredPools = EmptyMap
    /\ stateMonitoredPools \in SuppliedStates
    /\ stateAliases = {}
    /\ jobLast = Null

\* The base tokens the long-lived job is asked to monitor.
JobBases == {"So1"}

\* job.addPoolToMonitor(base, quote) on the long-lived job.
AddPoolToMonitorCall ==
    /\ \E base \in JobBases, quote \in QuoteAddresses,
          ev \in Evaluations :
          LET poolKey == getPoolKey(base, quote)
              threw == poolKey \notin DOMAIN monitoredPools /\ ev = EvalThrows
          IN  /\ monitoredPools' =
                    IF threw THEN monitoredPools
                    ELSE addPoolToMonitor(monitoredPools, base, quote, now, ev)
              /\ jobLast' = [ kind |-> "addPoolToMonitor", key |-> poolKey,
                              threw |-> threw ]
    /\ UNCHANGED << vaultVars, watchVars, dexVars, clmVars, raceVars, now, stateMonitoredPools, stateAliases, trustVars,
                    actVars, riskVars, provVars, cacheVars >>

\* The pool's last check is at least the interval ago.
Stale(map, poolKey, at) ==
    poolKey \in DOMAIN map /\ at - map[poolKey].lastCheck >= checkInterval

\* The new analysis is the pool's prior analysis, preferred AMM included.
Unchanged(pool, analysis) ==
    /\ analysis = pool.lastAnalysis
    /\ analysis.recommendation.preferredAmm = pool.currentAmm

\* The new analysis differs from the pool's prior analysis by more than a
\* threshold: volatility by more than 20, volume health by more than 30, or
\* the score of an AMM by more than 20%.
Breach(pool, analysis) ==
    \/ Abs(pool.lastAnalysis.metrics.priceVolatility
           - analysis.metrics.priceVolatility) > 20
    \/ Abs(pool.lastAnalysis.metrics.volumeHealth
           - analysis.metrics.volumeHealth) > 30
    \/ \E amm \in {"raydium", "orca"} :
          5 * Abs(pool.lastAnalysis.recommendation.ammScores[amm]
                  - analysis.recommendation.ammScores[amm])
              > pool.lastAnalysis.recommendation.ammScores[amm]

\* job.checkPool(poolKey, state) on the long-lived job.
CheckPoolCall ==
    /\ \E poolKey \in PoolKeys, stateGiven \in BOOLEAN, ev \in Evaluations,
          renv \in JobRemoveEnvs :
          LET r == checkPool(monitoredPools, stateMonitoredPools, stateAliases,
                             poolKey, stateGiven, now, ev, positions, renv)
          IN  /\ monitoredPools' = r.map
              /\ stateMonitoredPools' = r.smap
              /\ stateAliases' = r.aliased
              /\ positions' = r.positions
              /\ jobLast' =
                    [ kind |-> "checkPool", key |-> poolKey,
                      monitored |-> poolKey \in DOMAIN monitoredPools,
                      wasAmm |-> IF poolKey \in DOMAIN monitoredPools
                                 THEN monitoredPools[poolKey].currentAmm
                                 ELSE "",
                      stale |-> Stale(monitoredPools, poolKey, now),
                      unchanged |-> r.evaluated
                                    /\ Unchanged(monitoredPools[poolKey], ev),
                      breach |-> r.evaluated
                                 /\ Breach(monitoredPools[poolKey], ev),
                      evaluated |-> r.evaluated,
                      threw |-> r.threw,
                      calls |-> r.calls ]
    /\ UNCHANGED << vaultVars, watchVars, dexVars, clmVars, raceVars, now, actLast, trustVars, riskVars, provVars, cacheVars >>

\* Object.keys(monitoredPools): the keys, one after the other.
RECURSIVE KeySeq(_)
KeySeq(keys) ==
    IF keys = {} THEN << >>
    ELSE LET k == CHOOSE x \in keys : TRUE
         IN  << k >> \o KeySeq(keys \ {k})

\* The job after one more checkPool of the loop of run, whose outcome is r.
RunStep(acc, poolKey, r) ==
    [ map |-> r.map, smap |-> r.smap, aliased |-> r.aliased,
      positions |-> r.positions,
      inMap |-> IF poolKey \in DOMAIN acc.map
                THEN acc.inMap \cup {poolKey} ELSE acc.inMap,
      evaluated |-> IF r.evaluated THEN acc.evaluated \cup {poolKey}
                    ELSE acc.evaluated,
      calls |-> acc.calls \o r.calls,
      threw |-> r.threw ]

\* The loop of run: monitor.checkPool(poolKey, state) for each key, until
\* one of them throws.
RECURSIVE RunChecks(_, _, _, _, _, _)
RunChecks(acc, keys, stateGiven, at, ev, renv) ==
    IF keys = << >> THEN acc
    ELSE CHOOSE out \in
             { IF a.threw THEN a
               ELSE RunChecks(
                        RunStep(a, Head(keys),
                                checkPool(a.map, a.smap, a.aliased, Head(keys),
                                          stateGiven, at, ev, a.positions,
                                          renv)),
                        Tail(keys), stateGiven, at, ev, renv) :
               a \in {acc} } : TRUE

\* const monitor = new PoolMonitorJob(): the map of a new job.
NewJobMap == EmptyMap

\* poolMonitorJob.run(runtime, message, state): a new job, a check of every
\* key of the State's entry, then the pool of the message is added to the
\* new job. The new job is dropped when run returns. ev is how the evaluator
\* answers during this invocation.
Run ==
    /\ \E stateGiven \in BOOLEAN, message \in Messages, ev \in Evaluations,
          renv \in JobRemoveEnvs :
       \E supplied \in { IF stateGiven THEN stateMonitoredPools ELSE EmptyMap } :
       \E checks \in
            { RunChecks([ map |-> NewJobMap, smap |-> stateMonitoredPools,
                          aliased |-> {}, positions |-> positions,
                          inMap |-> {}, evaluated |-> {},
                          calls |-> << >>, threw |-> FALSE ],
                        KeySeq(DOMAIN supplied), stateGiven, now, ev, renv) } :
          LET adds == /\ ~checks.threw
                      /\ message.baseTokenAddress # ""
                      /\ message.quoteTokenAddress # ""
              addKey == getPoolKey(message.baseTokenAddress,
                                   message.quoteTokenAddress)
              addThrew == /\ adds
                          /\ addKey \notin DOMAIN checks.map
                          /\ ev = EvalThrows
              jobMap == IF adds /\ ~addThrew
                        THEN addPoolToMonitor(checks.map,
                                              message.baseTokenAddress,
                                              message.quoteTokenAddress,
                                              now, ev)
                        ELSE checks.map
          IN  /\ stateMonitoredPools' = checks.smap
              /\ stateAliases' = stateAliases \ checks.aliased
              /\ positions' = checks.positions
              /\ jobLast' =
                    [ kind |-> "run",
                      at |-> now,
                      supplied |-> supplied,
                      inMap |-> checks.inMap,
                      evaluated |-> checks.evaluated,
                      calls |-> checks.calls,
                      jobMap |-> DOMAIN jobMap,
                      message |-> message,
                      result |-> IF checks.threw \/ addThrew
                                 THEN "Failed to monitor pools"
                                 ELSE "Pool monitoring completed successfully" ]
    /\ UNCHANGED << vaultVars, watchVars, dexVars, clmVars, raceVars, now, monitoredPools, actLast, trustVars, riskVars, provVars,
                    cacheVars >>

(***************************************************************************)
(* The providers' risk scores                                              *)
(*                                                                         *)
(* A score is a JavaScript number: Num(v) is the finite number v /         *)
(* RiskScale, Infinity and NaN are what a division by zero leaves. TVL and *)
(* volume are counted in thousands of USD (Kilo), and their grids make     *)
(* every quotient below a whole number of 1 / RiskScale units.             *)
(***************************************************************************)
RiskScale == 8 * 1000

Num(v) == [ tag |-> "num", v |-> v ]
Infinity == [ tag |-> "inf", v |-> 0 ]
NaN == [ tag |-> "nan", v |-> 0 ]

Kilo == 10 * 100

TvlGrid == {0, 50, 200, 1000, 4000, 20000}
VolumeGrid == {0, 8, 16, 1000, 4000, 10000}

PoolInputs == [ tvlUSD : TvlGrid, volumeUSD24h : VolumeGrid ]

\* RaydiumProvider.calculatePoolRisk. 1000 / tvl > 0.01 is 100000 > tvl for
\* every tvl >= 0 (1000 / 0 is Infinity).
RaydiumPoolRisk(pool) ==
    LET base == 5
        lowTvl == IF pool.tvlUSD * Kilo < 100000 THEN 2 ELSE 0
        lowVolume == IF pool.volumeUSD24h * Kilo < 10000 THEN 2 ELSE 0
        impact == IF 1000 * 100 > pool.tvlUSD * Kilo THEN 1 ELSE 0
    IN  Num(Min(base + lowTvl + lowVolume + impact, 10) * RiskScale)

\* MeteoraProvider.calculatePoolRisk(pool).score
MeteoraPoolRisk(pool) ==
    IF pool.tvlUSD = 0
    THEN IF pool.volumeUSD24h = 0 THEN NaN ELSE Infinity
    ELSE LET volatilityScore ==
                 (10 * RiskScale * pool.volumeUSD24h) \div pool.tvlUSD
             ilRisk == Min((volatilityScore * 3) \div 2, 10 * RiskScale)
             liquidityScore ==
                 Min((pool.tvlUSD * RiskScale) \div (1000000 \div Kilo),
                     10 * RiskScale)
             protocolRisk == 3 * RiskScale
         IN  Num((volatilityScore + ilRisk + (10 * RiskScale - liquidityScore)
                  + protocolRisk) \div 4)

\* YieldProvider.calculateBaseRiskMetrics(tvl, volume24h).score, with the
\* default volatility 0 and protocolRisk 5. Math.min(NaN, 10) is NaN.
BaseRiskScore(pool) ==
    IF pool.tvlUSD = 0 /\ pool.volumeUSD24h = 0 THEN NaN
    ELSE LET volatilityScore == Min(0 * 10, 10) * RiskScale
             liquidityScore ==
                 Min((pool.tvlUSD * RiskScale) \div (1000000 \div Kilo),
                     10 * RiskScale)
             ilRisk == IF pool.tvlUSD = 0 THEN 10 * RiskScale
                       ELSE Min((10 * RiskScale * pool.volumeUSD24h)
                                    \div pool.tvlUSD,
                                10 * RiskScale)
             protocolRisk == 5 * RiskScale
         IN  Num((volatilityScore + ilRisk + (10 * RiskScale - liquidityScore)
                  + protocolRisk) \div 4)

\* The opportunity a provider maps a fetched pool to.
Opportunity(protocol, pool) ==
    [ kind |-> "opportunity",
      protocol |-> protocol,
      tvl |-> pool.tvlUSD,
      volume |-> pool.volumeUSD24h,
      risk |-> CASE protocol = "Raydium" -> RaydiumPoolRisk(pool)
                 [] protocol = "Meteora" -> MeteoraPoolRisk(pool)
                 [] protocol = "Base" -> BaseRiskScore(pool) ]

RiskInit == riskLast = Null

\* RaydiumProvider.getLPOpportunities maps a pool it fetched.
RaydiumOpportunity ==
    /\ \E pool \in PoolInputs : riskLast' = Opportunity("Raydium", pool)
    /\ UNCHANGED << vaultVars, watchVars, dexVars, clmVars, raceVars, now, trustVars, jobVars, actVars, cacheVars, provVars >>

\* MeteoraProvider.getYieldOpportunities maps a pool it fetched.
MeteoraOpportunity ==
    /\ \E pool \in PoolInputs : riskLast' = Opportunity("Meteora", pool)
    /\ UNCHANGED << vaultVars, watchVars, dexVars, clmVars, raceVars, now, trustVars, jobVars, actVars, cacheVars, provVars >>

\* A provider built on the base class scores a pool with the common helper.
BaseOpportunity ==
    /\ \E pool \in PoolInputs : riskLast' = Opportunity("Base", pool)
    /\ UNCHANGED << vaultVars, watchVars, dexVars, clmVars, raceVars, now, trustVars, jobVars, actVars, cacheVars, provVars >>

(***************************************************************************)
(* YieldProvider: retry and cache helpers, and MeteoraProvider.fetchPools  *)
(*                                                                         *)
(* The repository holds two YieldProvider classes: the one of              *)
(* providers/yieldProvider.ts ("concrete": an in-memory NodeCache in front *)
(* of the cache manager, exponential backoff) and an abstract one          *)
(* ("abstract": the cache manager alone, linear backoff). baseClass says   *)
(* which one the providers are built on.                                   *)
(***************************************************************************)
MAX_RETRIES == 3
RETRY_DELAY == 2000
CACHE_TTL == 300
DefaultRetries == 3
DefaultDelay == 1000

\* The network is asked at most MaxAttempts times in one call.
MaxAttempts == 4

\* The attempts of one call: the first n fail, the later ones answer (what
\* follows the first answer is never asked for).
AttemptOutcomes ==
    { [ i \in 1..MaxAttempts |-> IF i <= n THEN "fail" ELSE "ok" ] :
        n \in 0..MaxAttempts }

\* The loop of yieldProvider.ts as it would be if every wait were RETRY_DELAY.
RECURSIVE RetryConcreteFixedDelay(_, _, _)
RetryConcreteFixedDelay(i, outcomes, delays) ==
    IF i >= MAX_RETRIES
    THEN [ status |-> "threw", attempts |-> i, delays |-> delays ]
    ELSE IF outcomes[i + 1] = "ok"
    THEN [ status |-> "returned", attempts |-> i + 1, delays |-> delays ]
    ELSE RetryConcreteFixedDelay(i + 1, outcomes,
                                 IF i < MAX_RETRIES - 1
                                 THEN Append(delays, RETRY_DELAY)
                                 ELSE delays)

\* fetchWithRetry of yieldProvider.ts, from attempt i on (i counts from 0).
RECURSIVE RetryConcrete(_, _, _)
RetryConcrete(i, outcomes, delays) ==
    IF i >= MAX_RETRIES
    THEN [ status |-> "threw", attempts |-> i, delays |-> delays ]
    ELSE IF outcomes[i + 1] = "ok"
    THEN [ status |-> "returned", attempts |-> i + 1, delays |-> delays ]
    ELSE RetryConcrete(i + 1, outcomes,
                       IF i < MAX_RETRIES - 1
                       THEN Append(delays, RETRY_DELAY * (2 ^ i))
                       ELSE delays)

\* fetchWithRetry of the abstract class, from attempt i on.
RECURSIVE RetryAbstract(_, _, _, _, _)
RetryAbstract(i, retries, delay, outcomes, delays) ==
    IF i >= retries
    THEN [ status |-> "undefined", attempts |-> i, delays |-> delays ]
    ELSE IF outcomes[i + 1] = "ok"
    THEN [ status |-> "returned", attempts |-> i + 1, delays |-> delays ]
    ELSE IF i = retries - 1
    THEN [ status |-> "threw", attempts |-> i + 1, delays |-> delays ]
    ELSE RetryAbstract(i + 1, retries, delay, outcomes,
                       Append(delays, delay * (i + 1)))

\* fetchWithRetry as it would be without its loop: one attempt.
fetchWithRetryOnce(class, outcomes, payload) ==
    IF outcomes[1] = "ok"
    THEN [ status |-> "returned", attempts |-> 1, delays |-> << >>,
           value |-> payload ]
    ELSE [ status |-> "threw", attempts |-> 1, delays |-> << >>,
           value |-> Null ]

\* fetchWithRetry as it would be with a loop that runs once more than the
\* configured number of attempts.
fetchWithRetryOneMore(class, outcomes, payload) ==
    LET r == RetryAbstract(0, DefaultRetries + 1, DefaultDelay, outcomes,
                           << >>)
    IN  [ status |-> r.status, attempts |-> r.attempts, delays |-> r.delays,
          value |-> IF r.status = "returned" THEN payload ELSE Null ]

\* this.fetchWithRetry(url, options), as fetchPools calls it: the attempts,
\* and response.json() of the attempt that answered (payload).
fetchWithRetry(class, outcomes, payload) ==
    LET r == IF class = "concrete"
             THEN RetryConcrete(0, outcomes, << >>)
             ELSE RetryAbstract(0, DefaultRetries, DefaultDelay, outcomes,
                                << >>)
    IN  [ status |-> r.status, attempts |-> r.attempts, delays |-> r.delays,
          value |-> IF r.status = "returned" THEN payload ELSE Null ]

\* A list of pools, as a value a cache can hold ([] is a value, not null).
Pools(list) == [ kind |-> "pools", list |-> list ]

\* if (cached) as it would be if an empty array counted as no value.
TruthyNonEmpty(v) == v # Null /\ v.list # << >>

\* if (cached): null and undefined are falsy, an array is truthy.
Truthy(v) == v # Null

\* path.join(this.cacheKey, key)
JoinPath(key) == << "yields/opportunities", key >>

\* The cache manager's get: the value, unless it is absent or has expired.
StoreGet(st, key, at) ==
    IF key \in DOMAIN st /\ (st[key].expires = 0 \/ st[key].expires > at)
    THEN st[key].value ELSE Null

\* NodeCache.get: the value, unless it is absent or its TTL is over.
MemGet(mem, key, at) ==
    IF key \in DOMAIN mem /\ at <= mem[key].expires
    THEN mem[key].value ELSE Null

\* getCachedData as it would be if a hit of the cache manager were returned
\* without being put into the NodeCache.
getCachedDataNoPopulate(class, mem, st, cm, key, at, readFails) ==
    IF class = "concrete"
    THEN LET cachedData == MemGet(mem, key, at)
         IN  IF Truthy(cachedData)
             THEN [ status |-> "returned", value |-> cachedData, mem |-> mem,
                    tier |-> "memory" ]
             ELSE IF ~cm \/ readFails
             THEN [ status |-> "threw", value |-> Null, mem |-> mem,
                    tier |-> "none" ]
             ELSE LET fileCachedData == StoreGet(st, JoinPath(key), at)
                  IN  [ status |-> "returned", value |-> fileCachedData,
                        mem |-> mem,
                        tier |-> IF Truthy(fileCachedData) THEN "persistent"
                                 ELSE "none" ]
    ELSE IF ~cm \/ readFails
         THEN [ status |-> "returned", value |-> Null, mem |-> mem,
                tier |-> "none" ]
         ELSE [ status |-> "returned", value |-> StoreGet(st, key, at),
                mem |-> mem,
                tier |-> IF Truthy(StoreGet(st, key, at)) THEN "persistent"
                         ELSE "none" ]

\* getCachedData: [status, value, mem, tier]. cm says whether the provider
\* has a cache manager at all, readFails whether the manager's get throws;
\* tier is the cache the value came from.
getCachedData(class, mem, st, cm, key, at, readFails) ==
    IF class = "concrete"
    THEN LET cachedData == MemGet(mem, key, at)
         IN  IF Truthy(cachedData)
             THEN [ status |-> "returned", value |-> cachedData, mem |-> mem,
                    tier |-> "memory" ]
             ELSE IF ~cm \/ readFails
             THEN [ status |-> "threw", value |-> Null, mem |-> mem,
                    tier |-> "none" ]
             ELSE LET fileCachedData == StoreGet(st, JoinPath(key), at)
                  IN  IF Truthy(fileCachedData)
                      THEN [ status |-> "returned", value |-> fileCachedData,
                             mem |-> MapSet(mem, key,
                                        [ value |-> fileCachedData,
                                          expires |-> at + CACHE_TTL * 1000 ]),
                             tier |-> "persistent" ]
                      ELSE [ status |-> "returned", value |-> Null,
                             mem |-> mem, tier |-> "none" ]
    ELSE IF ~cm \/ readFails
         THEN [ status |-> "returned", value |-> Null, mem |-> mem,
                tier |-> "none" ]
         ELSE [ status |-> "returned", value |-> StoreGet(st, key, at),
                mem |-> mem,
                tier |-> IF Truthy(StoreGet(st, key, at)) THEN "persistent"
                         ELSE "none" ]

\* writeToCache: [status, store, wrote].
writeToCache(class, st, cm, key, data, at, writeFails) ==
    IF class = "concrete"
    THEN IF ~cm \/ writeFails
         THEN [ status |-> "threw", store |-> st, wrote |-> FALSE ]
         ELSE [ status |-> "returned",
                store |-> MapSet(st, JoinPath(key),
                                 [ value |-> data,
                                   expires |-> at + CACHE_TTL * 1000 ]),
                wrote |-> TRUE ]
    ELSE IF ~cm \/ writeFails
         THEN [ status |-> "returned", store |-> st, wrote |-> FALSE ]
         ELSE [ status |-> "returned",
                store |-> MapSet(st, key, [ value |-> data, expires |-> 0 ]),
                wrote |-> TRUE ]

\* What the Meteora API answers to GET /pools.
RawPool(address) == [ address |-> address, tvlUSD |-> 1000000,
                      volumeUSD24h |-> 8000 ]

Payloads ==
    { [ success |-> FALSE, data |-> << >> ],
      [ success |-> TRUE, data |-> << >> ],
      [ success |-> TRUE, data |-> << RawPool("pool1") >> ] }

\* response.data.map(...): the MeteoraPool of each raw pool.
MapPools(data) ==
    [ i \in 1..Len(data) |->
        [ address |-> data[i].address, tvl |-> data[i].tvlUSD,
          volume24h |-> data[i].volumeUSD24h ] ]

\* How the environment behaves during one fetchPools.
FetchEnvs ==
    [ readFails : BOOLEAN, writeFails : BOOLEAN,
      outcomes : AttemptOutcomes, payload : Payloads ]

\* MeteoraProvider.fetchPools: [status, value, mem, store, retry, fromCache,
\* wrote]. retry is what fetchWithRetry did, Null if it was not called.
fetchPools(class, mem, st, cm, at, env) ==
    LET cacheKey == "meteora_pools"
        cached == getCachedData(class, mem, st, cm, cacheKey, at,
                                env.readFails)
        retry == fetchWithRetry(class, env.outcomes, env.payload)
        pools == Pools(MapPools(retry.value.data))
        written == writeToCache(class, st, cm, cacheKey, pools, at,
                                env.writeFails)
        failed == [ status |-> "returned", value |-> Pools(<< >>),
                    mem |-> cached.mem, store |-> st, retry |-> retry,
                    fromCache |-> FALSE, wrote |-> FALSE ]
    IN  IF cached.status = "threw"
        THEN [ status |-> "threw", value |-> Null, mem |-> cached.mem,
               store |-> st, retry |-> Null, fromCache |-> FALSE,
               wrote |-> FALSE ]
        ELSE IF Truthy(cached.value)
        THEN [ status |-> "returned", value |-> cached.value,
               mem |-> cached.mem, store |-> st, retry |-> Null,
               fromCache |-> TRUE, wrote |-> FALSE ]
        ELSE IF retry.status # "returned" THEN failed
        ELSE IF ~retry.value.success THEN failed
        ELSE IF written.status = "threw" THEN failed
        ELSE [ status |-> "returned", value |-> pools, mem |-> cached.mem,
               store |-> written.store, retry |-> retry,
               fromCache |-> FALSE, wrote |-> written.wrote ]

\* The number of failed attempts before the first one that answers.
RECURSIVE LeadingFailures(_, _)
LeadingFailures(outcomes, i) ==
    IF i > MaxAttempts THEN 0
    ELSE IF outcomes[i] = "ok" THEN 0
    ELSE 1 + LeadingFailures(outcomes, i + 1)

\* What fetchLast keeps of one fetchPools: the outcome; when the call wrote
\* the cache, the time (wroteAt); whether the cache manager was read and
\* threw (readFailed); what the call before it wrote and how long ago (prev).
FetchRecord(kind, r, env, at, before) ==
    [ kind |-> kind,
      status |-> r.status,
      value |-> r.value,
      fromCache |-> r.fromCache,
      wrote |-> r.wrote,
      wroteAt |-> IF r.wrote THEN at ELSE 0,
      readFailed |-> env.readFails /\ ~r.fromCache,
      retry |-> IF r.retry = Null THEN Null
                ELSE [ status |-> r.retry.status,
                       attempts |-> r.retry.attempts,
                       delays |-> r.retry.delays,
                       failures |-> LeadingFailures(env.outcomes, 1),
                       answer |-> env.payload,
                       value |-> r.retry.value ],
      prev |-> IF before # Null /\ before.wrote
               THEN [ value |-> before.value, age |-> at - before.wroteAt ]
               ELSE Null ]

(***************************************************************************)
(* The providers' entry points                                             *)
(*                                                                         *)
(* RaydiumProvider reads the chain through the SDK (the pool keys, then    *)
(* each pool's info) and Birdeye for the 24h volume; the staking providers *)
(* (Marinade, Lido, JPool) answer constant data and ask nobody. An entry   *)
(* point (get) builds a provider of its own and formats what it returns.   *)
(***************************************************************************)
\* At most MaxPools Raydium pools on the chain.
MaxPools == 2

\* The pools of the chain, in thousands of USD: the first n of a small pool,
\* a large pool, a small pool, ...
ChainPools ==
    { [ i \in 1..n |-> [ tvlUSD |-> IF i % 2 = 1 THEN 50 ELSE 1000,
                         volumeUSD24h |-> 1000 ] ] : n \in 0..MaxPools }

\* How the environment behaves during one request: whether RPC_URL makes a
\* Connection, whether fetchAllPoolKeys answers, the pool whose fetchInfo
\* throws and the pool whose Birdeye request throws (0: none).
RaydiumEnvs ==
    [ rpcUrlValid : BOOLEAN, poolKeys : {"ok", "fail"},
      infoFailsAt : 0..MaxPools, volumeFailsAt : 0..MaxPools ]

\* A request of the SDK failed during fetchRaydiumPools.
SdkFailed(chain, env) ==
    env.poolKeys = "fail" \/ env.infoFailsAt \in 1..Len(chain)

\* The Birdeye request of one of the pools failed.
VolumeFailed(chain, env) ==
    ~SdkFailed(chain, env) /\ env.volumeFailsAt \in 1..Len(chain)

\* fetch24hVolume(poolId).usd: zero when the request fails.
fetch24hVolume(pool, fails) == IF fails THEN 0 ELSE pool.volumeUSD24h

\* fetchRaydiumPools as it would be if each pool's failure were caught on
\* its own: the pools fetched before the failing one are returned.
fetchRaydiumPoolsPartial(chain, env) ==
    IF env.poolKeys = "fail" THEN << >>
    ELSE [ i \in 1..(IF env.infoFailsAt \in 1..Len(chain)
                     THEN env.infoFailsAt - 1 ELSE Len(chain)) |->
             [ address |-> i,
               tvlUSD |-> chain[i].tvlUSD,
               volumeUSD24h |-> chain[i].volumeUSD24h ] ]

\* fetchRaydiumPools: the PoolData of every pool, or [] when a request of
\* the SDK fails (Promise.all rejects as a whole).
fetchRaydiumPools(chain, env) ==
    IF SdkFailed(chain, env) THEN << >>
    ELSE [ i \in 1..Len(chain) |->
             [ address |-> i,
               tvlUSD |-> chain[i].tvlUSD,
               volumeUSD24h |->
                   fetch24hVolume(chain[i], env.volumeFailsAt = i) ] ]

\* this.cache.get(cacheKey) of RaydiumProvider.
RayCacheGet(cache, at) ==
    IF cache # Null /\ at <= cache.expires THEN cache.value ELSE Null

\* getLPOpportunities: [list, cache, fromCache].
getLPOpportunities(cache, chain, env, at) ==
    LET cached == RayCacheGet(cache, at)
        pools == fetchRaydiumPools(chain, env)
        opportunities ==
            [ i \in 1..Len(pools) |->
                [ protocol |-> "Raydium", address |-> pools[i].address,
                  tvl |-> pools[i].tvlUSD,
                  risk |-> RaydiumPoolRisk(pools[i]) ] ]
    IN  IF cached # Null
        THEN [ list |-> cached.list, cache |-> cache, fromCache |-> TRUE ]
        ELSE [ list |-> opportunities,
               cache |-> [ value |-> Pools(opportunities),
                           expires |-> at + CACHE_TTL * 1000 ],
               fromCache |-> FALSE ]

\* The report of an entry point: the header and one entry per opportunity
\* it lists (entries counts them; their order is not modelled).
Report(protocol, entries) ==
    [ kind |-> "report", protocol |-> protocol, entries |-> entries ]

\* "Unable to fetch <Protocol> opportunities. Please try again later."
Unable(protocol) ==
    [ kind |-> "unable", protocol |-> protocol, entries |-> 0 ]

\* raydiumProvider.get: a new provider, its opportunities, the top five.
raydiumProviderGet(chain, env, at) ==
    IF ~env.rpcUrlValid THEN Unable("Raydium")
    ELSE Report("Raydium",
                Min(5, Len(getLPOpportunities(Null, chain, env, at).list)))

\* MarinadeProvider.getStakingOpportunities: the pool, and the validators
\* whose APY is above the pool's (one, of the constant data).
getStakingOpportunities == << "pool", "validator" >>

\* marinadeProvider.get
marinadeProviderGet(rpcUrlValid) ==
    IF ~rpcUrlValid THEN Unable("Marinade")
    ELSE Report("Marinade", Len(getStakingOpportunities))

\* meteoraProvider.get, given what fetchPools of its new provider did.
meteoraProviderReport(r) ==
    IF r.status = "threw" THEN Unable("Meteora")
    ELSE Report("Meteora", Len(r.value.list))

ProvInit == rayCache = Null /\ provLast = Null

\* provider.getLPOpportunities() on a long-lived RaydiumProvider.
RaydiumGetLPOpportunitiesCall ==
    /\ \E chain \in ChainPools, env \in RaydiumEnvs :
          LET r == getLPOpportunities(rayCache, chain, env, now)
          IN  /\ rayCache' = r.cache
              /\ provLast' =
                    [ kind |-> "getter", protocol |-> "Raydium",
                      pools |-> Len(chain),
                      asked |-> ~r.fromCache,
                      sdkFailed |-> ~r.fromCache /\ SdkFailed(chain, env),
                      volumeFailed |-> ~r.fromCache /\ VolumeFailed(chain, env),
                      list |-> r.list ]
    /\ UNCHANGED << vaultVars, watchVars, dexVars, clmVars, raceVars, now, trustVars, jobVars, actVars, riskVars, cacheVars >>

\* raydiumProvider.get(runtime, message, state)
RaydiumProviderGet ==
    /\ \E chain \in ChainPools, env \in RaydiumEnvs :
          provLast' =
              [ kind |-> "get", protocol |-> "Raydium",
                networkFailed |-> /\ env.rpcUrlValid
                                  /\ \/ SdkFailed(chain, env)
                                     \/ VolumeFailed(chain, env),
                result |-> raydiumProviderGet(chain, env, now) ]
    /\ UNCHANGED << vaultVars, watchVars, dexVars, clmVars, raceVars, now, rayCache, trustVars, jobVars, actVars, riskVars,
                    cacheVars >>

\* marinadeProvider.get(runtime, message, state): no request is made.
MarinadeProviderGet ==
    /\ \E rpcUrlValid \in BOOLEAN :
          provLast' = [ kind |-> "get", protocol |-> "Marinade",
                        networkFailed |-> FALSE,
                        result |-> marinadeProviderGet(rpcUrlValid) ]
    /\ UNCHANGED << vaultVars, watchVars, dexVars, clmVars, raceVars, now, rayCache, trustVars, jobVars, actVars, riskVars,
                    cacheVars >>

CacheInit ==
    /\ baseClass \in {"concrete", "abstract"}
    /\ memCache = EmptyMap
    /\ store = EmptyMap
    /\ fetchLast = Null

\* fetchPools on a long-lived MeteoraProvider that was given its cache
\* manager.
FetchPoolsCall ==
    /\ \E env \in FetchEnvs :
          LET r == fetchPools(baseClass, memCache, store, TRUE, now, env)
          IN  /\ memCache' = r.mem
              /\ store' = r.store
              /\ fetchLast' = FetchRecord("fetchPools", r, env, now, fetchLast)
    /\ UNCHANGED << vaultVars, watchVars, dexVars, clmVars, raceVars, now, baseClass, trustVars, jobVars, actVars, riskVars, provVars >>

\* The environments of a fetchPools whose cache reads are followed: the
\* manager's get may throw, the network answers at once or not at all.
TierEnvs ==
    { env \in FetchEnvs :
        /\ ~env.writeFails
        /\ env.outcomes[1] = env.outcomes[MaxAttempts]
        /\ env.payload.success }

\* fetchPools on the long-lived provider, with the cache reads followed:
\* whether the NodeCache held the key when the call began (memoryHad), the
\* tier that served the value, whether the cache manager was asked
\* (consulted, true also when its get threw), and the same of the call
\* before.
FetchPoolsTiered ==
    /\ \E env \in TierEnvs :
       \E cached \in { getCachedData(baseClass, memCache, store, TRUE,
                                     "meteora_pools", now, env.readFails) },
          r \in { fetchPools(baseClass, memCache, store, TRUE, now, env) } :
          /\ memCache' = r.mem
          /\ store' = r.store
          /\ fetchLast' =
                [ kind |-> "tiered",
                  at |-> now,
                  memoryHad |-> Truthy(MemGet(memCache, "meteora_pools", now)),
                  tier |-> cached.tier,
                  consulted |-> cached.tier # "memory",
                  status |-> r.status,
                  value |-> r.value,
                  prev |-> IF fetchLast = Null THEN Null
                           ELSE [ tier |-> fetchLast.tier,
                                  at |-> fetchLast.at,
                                  value |-> fetchLast.value ] ]
    /\ UNCHANGED << now, baseClass, vaultVars, watchVars, trustVars, jobVars, actVars, riskVars,
                    provVars, dexVars, clmVars, raceVars >>

\* meteoraProvider.get: new MeteoraProvider(connection, runtime.cacheManager)
\* hands the cache manager over in the place of the wallet key, so the new
\* provider has no cache manager; its NodeCache is new as well.
MeteoraProviderGet ==
    /\ \E env \in FetchEnvs :
          LET r == fetchPools(baseClass, EmptyMap, store, FALSE, now, env)
          IN  /\ store' = r.store
              /\ fetchLast' = FetchRecord("get", r, env, now, Null)
              /\ provLast' =
                    [ kind |-> "get", protocol |-> "Meteora",
                      networkFailed |-> /\ r.retry # Null
                                        /\ r.retry.status # "returned",
                      result |-> meteoraProviderReport(r) ]
    /\ UNCHANGED << vaultVars, watchVars, dexVars, clmVars, raceVars, now, baseClass, memCache, rayCache, trustVars, jobVars,
                    actVars, riskVars >>

(***************************************************************************)
(* Specifications                                                          *)
(***************************************************************************)
(***************************************************************************)
(* DexScreenerProvider                                                     *)
(***************************************************************************)

\* At most MaxPairs pairs in one answer of the API.
MaxPairs == 2

cacheDuration == 5 * Minute

\* toLowerCase on the addresses in use.
toLowerCase(address) ==
    CASE address = "So1" -> "so1"
      [] address = "USDC" -> "usdc"
      [] address = "BONK" -> "bonk"
      [] OTHER -> address

\* A pair as the API lists it, before its place in the answer gives it a
\* venue and an address: its chain, its two tokens, volume.h24 and
\* liquidity.usd.
ListedPairs ==
    { [ chainId |-> k[1], baseToken |-> k[2], quoteToken |-> k[3],
        volume |-> k[4], liquidity |-> k[5] ] :
      k \in { << "solana", "So1", "USDC", 100000, 50000 >>,
              << "solana", "So1", "USDC", 80000, 90000 >>,
              << "solana", "So1", "USDC", 70000, 120000 >>,
              << "solana", "usdc", "so1", 100000, 50000 >>,
              << "solana", "So1", "BONK", 80000, 90000 >>,
              << "ethereum", "So1", "USDC", 100000, 90000 >> } }

DexIds == << "raydium", "orca", "meteora" >>

\* What axios.get answers: it throws, or lists up to MaxPairs pairs.
DexResponses ==
    { [ ok |-> FALSE, pairs |-> << >> ] }
    \cup { [ ok |-> TRUE,
             pairs |-> [ i \in 1..n |->
                         [ chainId |-> listed[i].chainId,
                           dexId |-> DexIds[i],
                           pairAddress |-> i,
                           baseToken |-> listed[i].baseToken,
                           quoteToken |-> listed[i].quoteToken,
                           volume |-> listed[i].volume,
                           liquidity |-> listed[i].liquidity ] ] ] :
           n \in 0..MaxPairs, listed \in [ 1..MaxPairs -> ListedPairs ] }

\* getPairsByTokenAddress: [pairs, cache, fromCache]. The cache has the one
\* key "token_<address>" of the address in use.
getPairsByTokenAddress(cache, response, at) ==
    IF cache # Null /\ at - cache.timestamp < cacheDuration
    THEN [ pairs |-> cache.data, cache |-> cache, fromCache |-> TRUE ]
    ELSE IF ~response.ok
    THEN [ pairs |-> << >>, cache |-> cache, fromCache |-> FALSE ]
    ELSE LET solanaPairs ==
                 SelectSeq(response.pairs, LAMBDA pair : pair.chainId = "solana")
         IN  [ pairs |-> solanaPairs,
               cache |-> [ data |-> solanaPairs, timestamp |-> at ],
               fromCache |-> FALSE ]

\* The pair is the two tokens, in either order.
MatchesPair(pair, baseAddress, quoteAddress) ==
    \/ /\ toLowerCase(pair.baseToken) = toLowerCase(baseAddress)
       /\ toLowerCase(pair.quoteToken) = toLowerCase(quoteAddress)
    \/ /\ toLowerCase(pair.baseToken) = toLowerCase(quoteAddress)
       /\ toLowerCase(pair.quoteToken) = toLowerCase(baseAddress)

\* volume.h24 * 0.7 + liquidity.usd * 0.3, in tenths.
Score10(volume, liquidity) == 7 * volume + 3 * liquidity

ScoredPair(pair) ==
    [ dexId |-> pair.dexId,
      score10 |-> Score10(pair.volume, pair.liquidity),
      volumeUsd24h |-> pair.volume,
      liquidityUsd |-> pair.liquidity,
      pairAddress |-> pair.pairAddress ]

NoDex ==
    [ dexId |-> "none", score10 |-> 0, volumeUsd24h |-> 0, liquidityUsd |-> 0,
      pairAddress |-> 0 ]

\* A reduce that keeps the pair it has unless the next scores less.
RECURSIVE BestScoredLowest(_, _, _)
BestScoredLowest(scoredPairs, i, best) ==
    IF i > Len(scoredPairs) THEN best
    ELSE BestScoredLowest(scoredPairs, i + 1,
                          IF scoredPairs[i].score10 < best.score10
                          THEN scoredPairs[i] ELSE best)

\* scoredPairs.reduce((best, current) =>
\*     current.score > best.score ? current : best), from element i on.
RECURSIVE BestScored(_, _, _)
BestScored(scoredPairs, i, best) ==
    IF i > Len(scoredPairs) THEN best
    ELSE BestScored(scoredPairs, i + 1,
                    IF scoredPairs[i].score10 > best.score10
                    THEN scoredPairs[i] ELSE best)

\* getBestDexForPair: [matching, best, cache, fromCache].
getBestDexForPair(cache, baseAddress, quoteAddress, response, at) ==
    LET got == getPairsByTokenAddress(cache, response, at)
        matchingPairs ==
            SelectSeq(got.pairs,
                      LAMBDA pair : MatchesPair(pair, baseAddress, quoteAddress))
        scoredPairs == [ i \in 1..Len(matchingPairs) |->
                         ScoredPair(matchingPairs[i]) ]
    IN  [ matching |-> scoredPairs,
          best |-> IF Len(matchingPairs) = 0 THEN NoDex
                   ELSE BestScored(scoredPairs, 2, scoredPairs[1]),
          cache |-> got.cache,
          fromCache |-> got.fromCache ]

\* getBestDexForPair("So1", quoteAddress) on the long-lived provider
GetBestDexForPair ==
    /\ \E quoteAddress \in {"USDC", "BONK"}, response \in DexResponses :
          \E r \in { getBestDexForPair(dexCache, "So1", quoteAddress,
                                       response, now) } :
             /\ dexCache' = r.cache
             /\ dexLast' = [ quoteAddress |-> quoteAddress,
                             matching |-> r.matching,
                             fromCache |-> r.fromCache,
                             best |-> r.best ]
    /\ UNCHANGED << now, vaultVars, watchVars, trustVars, jobVars, actVars, riskVars, cacheVars,
                    provVars, clmVars, raceVars >>

\* The cache duration passes between two requests.
CacheDurationPasses ==
    /\ now + cacheDuration <= MaxMinutes * Minute
    /\ now' = now + cacheDuration
    /\ UNCHANGED << vaultVars, watchVars, trustVars, jobVars, actVars, riskVars, cacheVars,
                    provVars, dexVars, clmVars, raceVars >>

(***************************************************************************)
(* CLMOpportunityEvaluator and YieldOpportunityEvaluator                   *)
(***************************************************************************)

\* What Birdeye's token_security answers for the base token.
ClmSecurityInputs ==
    { [ isHoneypot |-> h,
        hasBlacklist |-> f = "blacklist",
        hasMintFunction |-> f \in {"mint", "mintRenounced"},
        hasRenounced |-> f \notin {"mint", "owned"},
        top10HolderPercent |-> IF f = "top10" THEN 90 ELSE 10 ] :
      h \in BOOLEAN,
      f \in {"none", "blacklist", "mint", "mintRenounced", "owned", "top10"} }

\* What Birdeye's price-volume answers: the liquidity is 100000 and the
\* volume one of three, so that the fee APR is 10.95, 21.9 or 109.5.
ClmMarketInputs == [ volume24h : {10000, 20000, 100000}, liquidity : {100000} ]

\* The hourly candles: their volumes, and the annualized deviation of the
\* log returns of their closes (calculatePriceVolatility), which is taken
\* as it comes. The volumes keep mean and deviation whole numbers.
ClmCandles ==
    [ volumes : { << 10, 10 >>, << 5, 15 >>, << 2, 18 >>, << 0, 0 >>,
                  << 0, 0, 0, 0, 50 >> },
      priceVolatility : {0, 30, 60} ]

ClmHolderInputs == [ totalHolders : {50, 1000} ]

RECURSIVE SumSeq(_, _)
SumSeq(values, i) ==
    IF i > Len(values) THEN 0 ELSE values[i] + SumSeq(values, i + 1)

\* Math.sqrt of a square.
Sqrt(n) == CHOOSE r \in 0..n : r * r = n

\* calculateVolumeStability: Math.max(0, 100 - (stdDev / mean) * 100); 0 / 0
\* is NaN and Math.max(0, NaN) is NaN.
calculateVolumeStability(volumes) ==
    LET mean == SumSeq(volumes, 1) \div Len(volumes)
        variance ==
            SumSeq([ i \in 1..Len(volumes) |->
                     (volumes[i] - mean) * (volumes[i] - mean) ], 1)
                \div Len(volumes)
    IN  IF mean = 0 THEN NaN
        ELSE Num(Max(0, 100 - (Sqrt(variance) * 100) \div mean))

\* calculateFeeAPR, in hundredths of a percent:
\* ((volume24h * 0.003 * 365) / liquidity) * 100.
calculateFeeAPR(marketData) ==
    (marketData.volume24h * 10950) \div marketData.liquidity

calculateSecurityScore(securityMetrics) ==
    Max(0, 100
           - (IF securityMetrics.isHoneypot THEN 100 ELSE 0)
           - (IF securityMetrics.hasBlacklist THEN 20 ELSE 0)
           - (IF securityMetrics.hasMintFunction THEN 30 ELSE 0)
           - (IF ~securityMetrics.hasRenounced THEN 10 ELSE 0))

\* calculateTopHolderConcentration answers 0.3 whatever the holdings are,
\* so "topHolderConcentration > 50" never holds.
calculateRugPullRisk(securityMetrics, holderMetrics) ==
    Min(100, (IF securityMetrics.hasMintFunction THEN 30 ELSE 0)
             + (IF holderMetrics.topHolderConcentrationAbove50 THEN 30 ELSE 0)
             + (IF ~securityMetrics.hasRenounced THEN 20 ELSE 0)
             + (IF holderMetrics.totalHolders < 100 THEN 20 ELSE 0))

calculateHolderMetrics(holderData) ==
    [ totalHolders |-> holderData.totalHolders,
      topHolderConcentrationAbove50 |-> FALSE ]

calculateILRisk(volatility) == Min(100, volatility * 2)

\* calculateMetrics, the fields the evaluation reads.
ClmCalculateMetrics(securityMetrics, marketData, ohlcv, holderData) ==
    [ feeAPR |-> calculateFeeAPR(marketData),
      priceVolatility |-> ohlcv.priceVolatility,
      volumeStability |-> calculateVolumeStability(ohlcv.volumes),
      securityScore |-> calculateSecurityScore(securityMetrics),
      rugPullRisk |->
          calculateRugPullRisk(securityMetrics,
                               calculateHolderMetrics(holderData)),
      impermanentLossRisk |-> calculateILRisk(ohlcv.priceVolatility) ]

\* calculateRiskLevel: rugPullRisk * 0.4 + impermanentLossRisk * 0.3
\* + (100 - securityScore) * 0.3, in tenths.
calculateRiskLevel(metrics) ==
    LET riskScore == 4 * metrics.rugPullRisk + 3 * metrics.impermanentLossRisk
                     + 3 * (100 - metrics.securityScore)
    IN  IF riskScore < 200 THEN "low"
        ELSE IF riskScore < 400 THEN "medium"
        ELSE IF riskScore < 600 THEN "high"
        ELSE "extreme"

\* x < n of a number that may be NaN: false for NaN.
LessThan(x, n) == x.tag = "num" /\ x.v < n
GreaterThan(x, n) == x.tag = "num" /\ x.v > n

determineAction(metrics, riskLevel) ==
    IF riskLevel = "extreme" THEN "avoid"
    ELSE IF metrics.feeAPR < 2000 \/ LessThan(metrics.volumeStability, 30)
    THEN "avoid"
    ELSE IF riskLevel = "high" /\ metrics.feeAPR < 10000 THEN "monitor"
    ELSE IF metrics.securityScore < 50 THEN "avoid"
    ELSE "provide"

\* The exposure with a risk multiplier that reaches 2.
ClmCalculateMaxExposureDoubled(metrics) ==
    IF metrics.volumeStability.tag # "num" THEN NaN
    ELSE Num(20 * (200 - metrics.rugPullRisk) * metrics.volumeStability.v)

\* CLMOpportunityEvaluator.calculateMaxExposure, in 1/10000 of a percent of
\* the portfolio: 20 * ((100 - rugPullRisk) / 100) * (volumeStability / 100).
ClmCalculateMaxExposure(metrics) ==
    IF metrics.volumeStability.tag # "num" THEN NaN
    ELSE Num(20 * (100 - metrics.rugPullRisk) * metrics.volumeStability.v)

\* generateEvaluation over calculateMetrics, with the exposure of the
\* recommendation.
ClmGenerateEvaluation(securityMetrics, marketData, ohlcv, holderData) ==
    LET metrics == ClmCalculateMetrics(securityMetrics, marketData, ohlcv,
                                       holderData)
        riskLevel == calculateRiskLevel(metrics)
    IN  [ kind |-> "evaluation",
          security |-> securityMetrics,
          metrics |-> metrics,
          maxExposure |-> ClmCalculateMaxExposure(metrics),
          riskLevel |-> riskLevel,
          action |-> determineAction(metrics, riskLevel) ]

\* calculateMetrics and generateEvaluation applied to what the sources answer
ClmEvaluate ==
    /\ \E securityMetrics \in ClmSecurityInputs, marketData \in ClmMarketInputs,
          ohlcv \in ClmCandles, holderData \in ClmHolderInputs :
          \E evaluation \in { ClmGenerateEvaluation(securityMetrics, marketData,
                                                    ohlcv, holderData) } :
             clmLast' = evaluation
    /\ UNCHANGED << now, vaultVars, watchVars, trustVars, jobVars, actVars, riskVars, cacheVars,
                    provVars, dexVars, raceVars >>

\* What token_security's score and the risk level can be.
YieldExposureInputs ==
    [ securityScore : {-20, 0, 50, 100, 150},
      riskLevel : {"low", "medium", "high", "extreme"} ]

\* YieldOpportunityEvaluator.calculateMaxExposure, in hundredths of a
\* percent: Math.max(0, Math.min(20, baseExposure * (securityScore / 100))).
calculateMaxExposure(metrics, riskLevel) ==
    LET baseExposure == CASE riskLevel = "low" -> 20
                          [] riskLevel = "medium" -> 10
                          [] riskLevel = "high" -> 5
                          [] riskLevel = "extreme" -> 0
    IN  Max(0, Min(20 * 100, baseExposure * metrics.securityScore))

\* calculateMaxExposure applied to a security score and a risk level
YieldMaxExposure ==
    /\ \E input \in YieldExposureInputs :
          clmLast' = [ kind |-> "yieldExposure",
                       securityScore |-> input.securityScore,
                       riskLevel |-> input.riskLevel,
                       maxExposure |->
                           calculateMaxExposure(
                               [securityScore |-> input.securityScore],
                               input.riskLevel) ]
    /\ UNCHANGED << now, vaultVars, watchVars, trustVars, jobVars, actVars, riskVars, cacheVars,
                    provVars, dexVars, raceVars >>

(***************************************************************************)
(* checkPool, one step at a time                                           *)
(*                                                                         *)
(* An invocation of checkPool runs from one await to the next without      *)
(* interruption; at an await another invocation may run. calls holds the   *)
(* invocations of the long-lived job for the pool So1-USDC: where each     *)
(* stands, the Date.now() it read (at), the pool.lastCheck it compared it  *)
(* with (since), and the analysis it got. issued holds the calls into the  *)
(* action layer, each with the invocation and the lastCheck it saw.        *)
(***************************************************************************)
CallIds == {1, 2}

RacePoolKey == getPoolKey("So1", "USDC")

IdleCall ==
    [ pc |-> "idle", at |-> 0, since |-> 0, stateGiven |-> FALSE,
      analysis |-> Null ]

\* The calls of one invocation into the action layer, as entries of issued.
Issues(c, since, actionCalls) ==
    { [ call |-> c, since |-> since, method |-> actionCalls[i].call.method ] :
      i \in 1..Len(actionCalls) }

\* checkPool, lines 59-66: the pool is looked up, the staleness check made,
\* and evaluatePair is awaited.
CheckPoolStart(c) ==
    /\ calls[c].pc = "idle"
    /\ \E stateGiven \in BOOLEAN :
          calls' =
              IF Stale(monitoredPools, RacePoolKey, now)
              THEN [ calls EXCEPT ![c] =
                       [ pc |-> "evaluating", at |-> now,
                         since |-> monitoredPools[RacePoolKey].lastCheck,
                         stateGiven |-> stateGiven, analysis |-> Null ] ]
              ELSE calls
    /\ UNCHANGED << now, issued, vaultVars, watchVars, trustVars, jobVars, actVars, riskVars,
                    cacheVars, provVars, dexVars, clmVars >>

\* checkPool, lines 90-106, which no await interrupts: the pool is updated,
\* stored in the State, and the position adjusted if the analysis changed.
\* [map, smap, aliased, positions, issues]
CheckPoolFinish(c, analysis, pos, renv) ==
    LET pool == monitoredPools[RacePoolKey]
        updated == [ pool EXCEPT !.lastCheck = calls[c].at,
                                 !.lastAnalysis = analysis,
                                 !.currentAmm =
                                     analysis.recommendation.preferredAmm ]
        adjust == IF shouldAdjustPosition(updated.lastAnalysis, analysis)
                  THEN JobAdjustCalls(updated, analysis, pos, renv)
                  ELSE << >>
    IN  [ map |-> MapSet(monitoredPools, RacePoolKey, updated),
          smap |-> IF calls[c].stateGiven \/ RacePoolKey \in stateAliases
                   THEN MapSet(stateMonitoredPools, RacePoolKey, updated)
                   ELSE stateMonitoredPools,
          aliased |-> IF calls[c].stateGiven
                      THEN stateAliases \cup {RacePoolKey} ELSE stateAliases,
          positions |-> IF adjust = << >> THEN pos ELSE adjust[1].positions,
          issues |-> Issues(c, calls[c].since, adjust) ]

\* evaluatePair settles (line 66). If it rejects, so does checkPool. If the
\* AMM is to be switched away from raydium, removeLiquidity is called and
\* awaited (lines 72-86); otherwise the invocation runs to its end.
EvaluatePairSettles(c) ==
    /\ calls[c].pc = "evaluating"
    /\ \E ev \in Evaluations, renv \in JobRemoveEnvs :
          IF ev = EvalThrows
          THEN /\ calls' = [ calls EXCEPT ![c] = IdleCall ]
               /\ UNCHANGED << issued, jobVars, positions >>
          ELSE IF /\ SwitchNeeded(monitoredPools[RacePoolKey], ev)
                  /\ monitoredPools[RacePoolKey].currentAmm = "raydium"
          THEN \E removal \in { ActionCall("removeLiquidity",
                                           monitoredPools[RacePoolKey],
                                           positions, renv) } :
                  /\ calls' = [ calls EXCEPT ![c].pc = "removing",
                                             ![c].analysis = ev ]
                  /\ issued' = issued
                                 \cup Issues(c, calls[c].since, << removal >>)
                  /\ positions' = removal.positions
                  /\ UNCHANGED jobVars
          ELSE \E r \in { CheckPoolFinish(c, ev, positions, renv) } :
                  /\ calls' = [ calls EXCEPT ![c] = IdleCall ]
                  /\ issued' = issued \cup r.issues
                  /\ positions' = r.positions
                  /\ monitoredPools' = r.map
                  /\ stateMonitoredPools' = r.smap
                  /\ stateAliases' = r.aliased
                  /\ UNCHANGED jobLast
    /\ UNCHANGED << now, actLast, vaultVars, watchVars, trustVars, riskVars, cacheVars, provVars,
                    dexVars, clmVars >>

\* removeLiquidity settles (line 81) and the invocation runs to its end.
RemoveLiquiditySettles(c) ==
    /\ calls[c].pc = "removing"
    /\ \E renv \in JobRemoveEnvs :
       \E r \in { CheckPoolFinish(c, calls[c].analysis, positions, renv) } :
          /\ calls' = [ calls EXCEPT ![c] = IdleCall ]
          /\ issued' = issued \cup r.issues
          /\ positions' = r.positions
          /\ monitoredPools' = r.map
          /\ stateMonitoredPools' = r.smap
          /\ stateAliases' = r.aliased
    /\ UNCHANGED << now, jobLast, actLast, vaultVars, watchVars, trustVars, riskVars, cacheVars,
                    provVars, dexVars, clmVars >>

RaceInit ==
    /\ calls = [ c \in CallIds |-> IdleCall ]
    /\ issued = {}

(***************************************************************************)
(* The vault program (TASKS.md)                                            *)
(*                                                                         *)
(* A Poseidon program: one VaultState, one token account (the vault) and a *)
(* UserPosition account per depositor. An instruction that fails (a panic  *)
(* of the program, a token transfer that is refused) leaves every account  *)
(* as it was. Whether u64 arithmetic that leaves the range panics or wraps *)
(* is a property of the build (Rust's overflow-checks), which the          *)
(* repository does not fix: overflowChecks holds it. u64 is scaled to a    *)
(* word of 8 bits; the amounts of the model stay far below it, so that     *)
(* only a subtraction can leave the range.                                 *)
(***************************************************************************)
WordModulus == 2 ^ 8

\* At most MaxVault tokens in the vault's token account.
MaxVault == 4

SecondsPerYear == 365 * 24 * 60 * 60

\* The UserPosition accounts.
PositionAccounts == {"alice", "bob"}

\* The amounts of a deposit and the shares of a withdrawal.
DepositAmounts == 1..2
WithdrawShares == 1..3

\* a + b, a - b and a * b in u64: the value modulo the word, whether it left
\* the range (wrapped), and whether the program panics for it.
Plus(a, b, checks) ==
    [ value |-> (a + b) % WordModulus,
      wrapped |-> a + b >= WordModulus,
      panics |-> checks /\ a + b >= WordModulus ]

Minus(a, b, checks) ==
    [ value |-> (a - b + WordModulus) % WordModulus,
      wrapped |-> a < b,
      panics |-> checks /\ a < b ]

Times(a, b, checks) ==
    [ value |-> (a * b) % WordModulus,
      wrapped |-> a * b >= WordModulus,
      panics |-> checks /\ a * b >= WordModulus ]

\* The accounts after initialize(owner, ..., performanceFee, managementFee).
initialize(performanceFee, managementFee) ==
    [ totalShares |-> 0, totalAssets |-> 0,
      performanceFee |-> performanceFee, managementFee |-> managementFee,
      lastHarvestTime |-> 0,
      amount |-> 0,
      positions |-> [ a \in PositionAccounts |->
                        [ shares |-> 0, depositedAmount |-> 0 ] ] ]

\* An instruction that failed: the accounts are as before.
Failed(v, cause) ==
    [ status |-> "failed", cause |-> cause, wrapped |-> {}, vault |-> v ]

calculateShares(amount, totalAssets, totalShares, checks) ==
    IF totalAssets = 0 \/ totalShares = 0
    THEN [ value |-> amount, wrapped |-> FALSE, panics |-> FALSE ]
    ELSE LET product == Times(amount, totalShares, checks)
         IN  [ value |-> product.value \div totalAssets,
               wrapped |-> product.wrapped, panics |-> product.panics ]

\* calculateAmount; the caller has seen to totalShares # 0.
calculateAmount(shares, totalAssets, totalShares, checks) ==
    LET product == Times(shares, totalAssets, checks)
    IN  [ value |-> product.value \div totalShares,
          wrapped |-> product.wrapped, panics |-> product.panics ]

\* totalAssets * (feeRate / 100 / SecondsPerYear) * timeDelta, as a u64.
calculateManagementFee(totalAssets, feeRate, timeDelta) ==
    ((totalAssets * feeRate * timeDelta) \div 100) \div SecondsPerYear

calculatePerformanceFee(oldTotal, newTotal, feeRate) ==
    IF newTotal <= oldTotal THEN 0
    ELSE ((newTotal - oldTotal) * feeRate) \div 100

\* The fields among names whose arithmetic left the range.
Wrapped(results, names) == { n \in names : results[n].wrapped }

\* deposit(user, ..., userPosition, amount); the user has the tokens.
deposit(v, checks, account, amount) ==
    LET pos == v.positions[account]
        shares == calculateShares(amount, v.totalAssets, v.totalShares,
                                  checks)
        r == [ amount |-> shares,
               totalShares |-> Plus(v.totalShares, shares.value, checks),
               totalAssets |-> Plus(v.totalAssets, amount, checks),
               shares |-> Plus(pos.shares, shares.value, checks),
               depositedAmount |-> Plus(pos.depositedAmount, amount, checks) ]
    IN  IF \E n \in DOMAIN r : r[n].panics
        THEN Failed(v, "overflow")
        ELSE [ status |-> "ok", cause |-> "",
               wrapped |-> Wrapped(r, DOMAIN r),
               vault |->
                   [ v EXCEPT
                       !.amount = v.amount + amount,
                       !.totalShares = r.totalShares.value,
                       !.totalAssets = r.totalAssets.value,
                       !.positions[account] =
                           [ shares |-> r.shares.value,
                             depositedAmount |-> r.depositedAmount.value ] ] ]

\* withdraw(user, ..., userPosition, shares): the amount, the transfer out
\* of the vault, then the four subtractions. Nothing compares shares with
\* userPosition.shares.
withdraw(v, checks, account, shares) ==
    LET pos == v.positions[account]
    IN  IF v.totalShares = 0
        THEN Failed(v, "division by zero")
        ELSE
        LET amount == calculateAmount(shares, v.totalAssets, v.totalShares,
                                      checks)
            r == [ amount |-> amount,
                   totalShares |-> Minus(v.totalShares, shares, checks),
                   totalAssets |-> Minus(v.totalAssets, amount.value, checks),
                   shares |-> Minus(pos.shares, shares, checks),
                   depositedAmount |->
                       Minus(pos.depositedAmount, amount.value, checks) ]
        IN  IF amount.panics THEN Failed(v, "overflow")
            ELSE IF amount.value > v.amount
            THEN Failed(v, "insufficient funds")
            ELSE IF r.totalShares.panics
            THEN Failed(v, "totalShares underflow")
            ELSE IF r.totalAssets.panics
            THEN Failed(v, "totalAssets underflow")
            ELSE IF r.shares.panics
            THEN Failed(v, "shares underflow")
            ELSE IF r.depositedAmount.panics
            THEN Failed(v, "depositedAmount underflow")
            ELSE [ status |-> "ok", cause |-> "",
                   wrapped |-> Wrapped(r, DOMAIN r),
                   vault |->
                     [ v EXCEPT
                         !.amount = v.amount - amount.value,
                         !.totalShares = r.totalShares.value,
                         !.totalAssets = r.totalAssets.value,
                         !.positions[account] =
                           [ shares |-> r.shares.value,
                             depositedAmount |->
                                 r.depositedAmount.value ] ] ]

\* harvest(owner, ...), called by the owner: the fees leave the vault and
\* totalAssets becomes what the token account then holds.
harvest(v, checks, at) ==
    LET timeDelta == at - v.lastHarvestTime
        managementFeeAmount ==
            calculateManagementFee(v.totalAssets, v.managementFee, timeDelta)
        performanceFeeAmount ==
            calculatePerformanceFee(v.totalAssets, v.amount, v.performanceFee)
        totalFees == managementFeeAmount + performanceFeeAmount
    IN  IF totalFees > v.amount
        THEN Failed(v, "insufficient funds")
        ELSE [ status |-> "ok", cause |-> "", wrapped |-> {},
               vault |-> [ v EXCEPT !.amount = v.amount - totalFees,
                                    !.lastHarvestTime = at,
                                    !.totalAssets = v.amount - totalFees ] ]

\* The sum of the shares of the UserPosition accounts.
RECURSIVE SumShares(_, _)
SumShares(v, accounts) ==
    IF accounts = {} THEN 0
    ELSE LET a == CHOOSE x \in accounts : TRUE
         IN  v.positions[a].shares + SumShares(v, accounts \ {a})

\* What vaultLast keeps of an instruction: the position it named and the
\* shares that position held before, the shares asked for, the outcome and
\* whether any account changed.
VaultRecord(op, account, shares, r) ==
    [ op |-> op,
      account |-> account,
      shares |-> shares,
      held |-> IF account = "" THEN 0 ELSE vault.positions[account].shares,
      status |-> r.status,
      cause |-> r.cause,
      wrapped |-> r.wrapped,
      changed |-> r.vault # vault ]

\* The accounts hold a value that left the range of u64. What the program
\* does with such accounts is not followed: a run of the vault ends with the
\* first instruction that wraps.
Corrupted == vaultLast # Null /\ vaultLast.wrapped # {}

VaultInit ==
    /\ vault \in { initialize(performanceFee, 2) : performanceFee \in {0, 50} }
    /\ overflowChecks \in BOOLEAN
    /\ vaultLast = Null

Deposit ==
    /\ ~Corrupted
    /\ \E account \in PositionAccounts, amount \in DepositAmounts :
          /\ vault.amount + amount <= MaxVault
          /\ \E r \in { deposit(vault, overflowChecks, account, amount) } :
                /\ vault' = r.vault
                /\ vaultLast' = VaultRecord("deposit", account, 0, r)
    /\ UNCHANGED << now, overflowChecks, watchVars, trustVars, jobVars,
                    actVars, riskVars, cacheVars, provVars, dexVars, clmVars,
                    raceVars >>

Withdraw ==
    /\ ~Corrupted
    /\ \E account \in PositionAccounts, shares \in WithdrawShares :
       \E r \in { withdraw(vault, overflowChecks, account, shares) } :
          /\ vault' = r.vault
          /\ vaultLast' = VaultRecord("withdraw", account, shares, r)
    /\ UNCHANGED << now, overflowChecks, watchVars, trustVars, jobVars,
                    actVars, riskVars, cacheVars, provVars, dexVars, clmVars,
                    raceVars >>

Harvest ==
    /\ ~Corrupted
    /\ \E r \in { harvest(vault, overflowChecks, now) } :
          /\ vault' = r.vault
          /\ vaultLast' = VaultRecord("harvest", "", 0, r)
    /\ UNCHANGED << now, overflowChecks, watchVars, trustVars, jobVars,
                    actVars, riskVars, cacheVars, provVars, dexVars, clmVars,
                    raceVars >>

\* The strategy the vault's tokens are lent to pays a token into the vault's
\* token account.
YieldArrives ==
    /\ ~Corrupted
    /\ vault.amount + 1 <= MaxVault
    /\ vault' = [ vault EXCEPT !.amount = vault.amount + 1 ]
    /\ vaultLast' = Null
    /\ UNCHANGED << now, overflowChecks, watchVars, trustVars, jobVars,
                    actVars, riskVars, cacheVars, provVars, dexVars, clmVars,
                    raceVars >>

(***************************************************************************)
(* WatchlistProvider                                                       *)
(*                                                                         *)
(* The watchlist is the list of memories of the table "watchlist_memories",*)
(* each the JSON of a WatchlistEntry. addedAt and lastChecked are written  *)
(* and never read, and are left out.                                       *)
(***************************************************************************)
\* At most MaxEntries entries on the watchlist.
MaxEntries == 2

WatchTokens == {"So1", "Ray"}

\* The alertThresholds argument of addToWatchlist: undefined (Null), all
\* three given, or the volume threshold alone (0 stands for a field that is
\* 0 or not given: both are falsy).
ThresholdArguments ==
    { Null,
      [ priceChangePercent |-> 10, volumeChangePercent |-> 30,
        liquidityChangePercent |-> 60000 ],
      [ priceChangePercent |-> 0, volumeChangePercent |-> 30,
        liquidityChangePercent |-> 0 ] }

\* alertThresholds?.field || fallback: undefined and 0 give the fallback.
OrDefault(arguments, field, fallback) ==
    IF arguments = Null THEN fallback
    ELSE IF arguments[field] = 0 THEN fallback
    ELSE arguments[field]

\* The entry addToWatchlist writes.
WatchlistEntry(tokenAddress, alertThresholds) ==
    [ tokenAddress |-> tokenAddress,
      alertThresholds |->
          [ priceChangePercent |->
                OrDefault(alertThresholds, "priceChangePercent", 5),
            volumeChangePercent |->
                OrDefault(alertThresholds, "volumeChangePercent", 20),
            liquidityChangePercent |->
                OrDefault(alertThresholds, "liquidityChangePercent", 10) ],
      isActive |-> TRUE ]

\* What tokenProvider.getProcessedTokenData() answers: the two 24h changes
\* in percent and the USD liquidity of the first pair (0: no pair).
TokenDatas ==
    [ price_change_24h_percent : {-8, 0, 8},
      volume_24h_change_percent : {0, 25},
      liquidityUsd : {0, 50000} ]

\* The strings the body of the loop pushes for one entry.
EntryAlerts(entry, tokenData) ==
    (IF Abs(tokenData.price_change_24h_percent)
            > entry.alertThresholds.priceChangePercent
     THEN << "price" >> ELSE << >>)
    \o (IF Abs(tokenData.volume_24h_change_percent)
               > entry.alertThresholds.volumeChangePercent
        THEN << "volume" >> ELSE << >>)
    \o (IF Abs(tokenData.liquidityUsd)
               > entry.alertThresholds.liquidityChangePercent
        THEN << "liquidity" >> ELSE << >>)

\* The loop of checkWatchlistAlerts over the entries from i on. The body
\* declares an array of its own under the name of the result (`const
\* alerts: string[]`, line 107), so the record of line 142 is pushed into
\* that array, which is dropped at the end of the iteration; `returned` is
\* the array of line 101. exceeded lists the entries whose record was built.
RECURSIVE CheckEntries(_, _, _, _)
CheckEntries(entries, i, tokenData, acc) ==
    IF i > Len(entries) THEN acc
    ELSE IF ~entries[i].isActive
    THEN CheckEntries(entries, i + 1, tokenData, acc)
    ELSE LET alerts == EntryAlerts(entries[i], tokenData)
         IN  CheckEntries(entries, i + 1, tokenData,
                 IF Len(alerts) > 0
                 THEN [ acc EXCEPT
                          !.exceeded =
                              Append(acc.exceeded, entries[i].tokenAddress) ]
                 ELSE acc)

\* checkWatchlistAlerts: [status, returned, exceeded]; it throws when
\* getProcessedTokenData throws while an active entry is looked at.
checkWatchlistAlerts(entries, tokenData) ==
    IF tokenData = Null /\ \E i \in 1..Len(entries) : entries[i].isActive
    THEN [ status |-> "threw", returned |-> << >>, exceeded |-> << >> ]
    ELSE CheckEntries(entries, 1, tokenData,
                      [ status |-> "returned", returned |-> << >>,
                        exceeded |-> << >> ])

\* removeFromWatchlist: the memories of the other tokens.
removeFromWatchlist(entries, tokenAddress) ==
    SelectSeq(entries, LAMBDA e : e.tokenAddress # tokenAddress)

WatchInit == watchlist = << >> /\ watchLast = Null

AddToWatchlist ==
    /\ Len(watchlist) < MaxEntries
    /\ \E tokenAddress \in WatchTokens, arguments \in ThresholdArguments :
          watchlist' = Append(watchlist,
                              WatchlistEntry(tokenAddress, arguments))
    /\ watchLast' = Null
    /\ UNCHANGED << now, vaultVars, trustVars, jobVars, actVars, riskVars,
                    cacheVars, provVars, dexVars, clmVars, raceVars >>

RemoveFromWatchlist ==
    /\ \E tokenAddress \in WatchTokens :
          watchlist' = removeFromWatchlist(watchlist, tokenAddress)
    /\ watchLast' = Null
    /\ UNCHANGED << now, vaultVars, trustVars, jobVars, actVars, riskVars,
                    cacheVars, provVars, dexVars, clmVars, raceVars >>

CheckWatchlistAlerts ==
    /\ \E tokenData \in TokenDatas \cup {Null} :
       \E r \in { checkWatchlistAlerts(watchlist, tokenData) } :
          watchLast' = [ kind |-> "check",
                         status |-> r.status,
                         returned |-> r.returned,
                         exceeded |-> r.exceeded ]
    /\ UNCHANGED << now, watchlist, vaultVars, trustVars, jobVars, actVars,
                    riskVars, cacheVars, provVars, dexVars, clmVars,
                    raceVars >>

VaultIdle == vault = Null /\ overflowChecks = TRUE /\ vaultLast = Null
WatchIdle == watchlist = << >> /\ watchLast = Null
EvalIdle ==
    /\ dexCache = Null /\ dexLast = Null /\ clmLast = Null
    /\ VaultIdle /\ WatchIdle
RaceIdle == calls = << >> /\ issued = {}
ProvIdle == rayCache = Null /\ provLast = Null /\ EvalIdle /\ RaceIdle
TrustIdle == trustScoreCache = Null /\ trustResult = Null
JobIdle ==
    /\ monitoredPools = EmptyMap
    /\ stateMonitoredPools = EmptyMap
    /\ stateAliases = {}
    /\ jobLast = Null
ActIdle == positions = << 100 >> /\ actLast = Null
RiskIdle == riskLast = Null
CacheIdle ==
    /\ baseClass = "concrete"
    /\ memCache = EmptyMap
    /\ store = EmptyMap
    /\ fetchLast = Null

InitTrust ==
    now = 0 /\ TrustInit /\ JobIdle /\ ActIdle /\ RiskIdle /\ CacheIdle /\ ProvIdle
NextTrust == GetTrustStateCached \/ GetTrustStateFresh \/ Tick
SpecTrust == InitTrust /\ [][NextTrust]_vars

InitJob ==
    now = 0 /\ TrustIdle /\ JobInit /\ ActIdle /\ RiskIdle /\ CacheIdle /\ ProvIdle
NextJob == AddPoolToMonitorCall \/ CheckPoolCall \/ Run \/ Tick
SpecJob == InitJob /\ [][NextJob]_vars

InitActions ==
    now = 0 /\ TrustIdle /\ JobIdle /\ ActInit /\ RiskIdle /\ CacheIdle /\ ProvIdle
NextActions ==
    RemoveLiquidityCall \/ AddLiquidityCall \/ AdjustPositionCall
    \/ ChainOpensPosition
SpecActions == InitActions /\ [][NextActions]_vars

InitExecute ==
    now = 0 /\ TrustIdle /\ JobIdle /\ ActInit /\ RiskIdle /\ CacheIdle /\ ProvIdle
NextExecute == RaydiumExecute \/ OrcaExecute \/ ChainOpensPosition
SpecExecute == InitExecute /\ [][NextExecute]_vars

InitDex ==
    now = 0 /\ TrustIdle /\ JobIdle /\ ActIdle /\ RiskIdle /\ CacheIdle /\ ProvIdle
NextDex == GetBestDexForPair \/ CacheDurationPasses
SpecDex == InitDex /\ [][NextDex]_vars

InitClm ==
    now = 0 /\ TrustIdle /\ JobIdle /\ ActIdle /\ RiskIdle /\ CacheIdle /\ ProvIdle
NextClm == ClmEvaluate \/ YieldMaxExposure
SpecClm == InitClm /\ [][NextClm]_vars

InitRace ==
    /\ now = 0 /\ TrustIdle /\ JobIdle /\ ActIdle /\ RiskIdle /\ CacheIdle
    /\ ProvInit /\ EvalIdle /\ RaceInit
NextRace ==
    \/ AddPoolToMonitorCall
    \/ Tick
    \/ \E c \in CallIds : CheckPoolStart(c)
    \/ \E c \in CallIds : EvaluatePairSettles(c)
    \/ \E c \in CallIds : RemoveLiquiditySettles(c)
SpecRace == InitRace /\ [][NextRace]_vars

InitVault ==
    /\ now = 0 /\ TrustIdle /\ JobIdle /\ ActIdle /\ RiskIdle /\ CacheIdle
    /\ ProvInit /\ dexCache = Null /\ dexLast = Null /\ clmLast = Null
    /\ RaceIdle /\ WatchIdle /\ VaultInit
NextVault == Deposit \/ Withdraw \/ Harvest \/ YieldArrives \/ Tick
SpecVault == InitVault /\ [][NextVault]_vars

InitWatch ==
    /\ now = 0 /\ TrustIdle /\ JobIdle /\ ActIdle /\ RiskIdle /\ CacheIdle
    /\ ProvInit /\ dexCache = Null /\ dexLast = Null /\ clmLast = Null
    /\ RaceIdle /\ VaultIdle /\ WatchInit
NextWatch == AddToWatchlist \/ RemoveFromWatchlist \/ CheckWatchlistAlerts
SpecWatch == InitWatch /\ [][NextWatch]_vars

InitTiers ==
    now = 0 /\ TrustIdle /\ JobIdle /\ ActIdle /\ RiskIdle /\ CacheInit /\ ProvIdle
NextTiers == FetchPoolsTiered \/ Tick
SpecTiers == InitTiers /\ [][NextTiers]_vars

InitRisk ==
    now = 0 /\ TrustIdle /\ JobIdle /\ ActIdle /\ RiskInit /\ CacheIdle /\ ProvIdle
NextRisk == RaydiumOpportunity \/ MeteoraOpportunity \/ BaseOpportunity
SpecRisk == InitRisk /\ [][NextRisk]_vars

InitCache ==
    now = 0 /\ TrustIdle /\ JobIdle /\ ActIdle /\ RiskIdle /\ CacheInit /\ ProvIdle
NextCache == FetchPoolsCall \/ MeteoraProviderGet \/ Tick
SpecCache == InitCache /\ [][NextCache]_vars

InitProviders ==
    now = 0 /\ TrustIdle /\ JobIdle /\ ActIdle /\ RiskIdle /\ CacheInit
    /\ ProvInit /\ EvalIdle /\ RaceIdle
NextProviders ==
    RaydiumGetLPOpportunitiesCall \/ RaydiumProviderGet
    \/ MarinadeProviderGet \/ MeteoraProviderGet
SpecProviders == InitProviders /\ [][NextProviders]_vars

(***************************************************************************)
(* Properties                                                              *)
(***************************************************************************)

\* The number of attempts fetchWithRetry is configured to make.
RetryCap == IF baseClass = "concrete" THEN MAX_RETRIES ELSE DefaultRetries

\* C1: the trust state of a pair whose security data has isHoneypot = true
\* has recommendations.shouldProvide = false, whatever the other metrics.
HoneypotNeverProvided ==
    (trustResult.kind = "trustState" /\ trustResult.security.isHoneypot)
        => ~trustResult.recommendations.shouldProvide

\* A honeypot pair that getTrustState recommends providing to.
HoneypotProvided ==
    /\ trustResult.kind = "trustState"
    /\ trustResult.security.isHoneypot
    /\ trustResult.recommendations.shouldProvide

RemovedStaysRemoved ==
    (actLast.kind = "adjustPosition" /\ actLast.removeOk /\ ~actLast.addOk)
        => /\ Len(positions) = Len(actLast.before)
           /\ \A i \in 1..Len(positions) : positions[i] = 0

\* adjustPosition removed the liquidity of a funded position, then its add
\* failed.
RemovedThenAddFailed ==
    /\ actLast.kind = "adjustPosition"
    /\ actLast.removeOk
    /\ ~actLast.addOk
    /\ \E i \in 1..Len(actLast.before) :
          actLast.before[i] > 0 /\ positions[i] = 0

\* C4: the risk of every opportunity a provider produces from non-negative
\* pool inputs is a number within [0, 10].
RiskWithinRange ==
    riskLast.kind = "opportunity"
        => /\ riskLast.risk.tag = "num"
           /\ riskLast.risk.v >= 0
           /\ riskLast.risk.v <= 10 * RiskScale

\* An opportunity of Meteora whose risk is a number above 10.
RiskAboveTen ==
    /\ riskLast.kind = "opportunity"
    /\ riskLast.protocol = "Meteora"
    /\ riskLast.risk.tag = "num"
    /\ riskLast.risk.v > 10 * RiskScale

\* C5: when the first N attempts fail and N is below the retry cap,
\* fetchWithRetry makes exactly N + 1 attempts and returns what the last of
\* them answered.
SucceedsBelowCap ==
    (fetchLast.kind # "null" /\ fetchLast.retry # Null
     /\ fetchLast.retry.failures < RetryCap)
        => /\ fetchLast.retry.status = "returned"
           /\ fetchLast.retry.attempts = fetchLast.retry.failures + 1
           /\ fetchLast.retry.value = fetchLast.retry.answer

\* Two attempts failed and the third one's answer was returned.
ThirdAttemptReturned ==
    /\ fetchLast.kind # "null"
    /\ fetchLast.retry # Null
    /\ fetchLast.retry.failures = 2
    /\ fetchLast.retry.attempts = 3
    /\ fetchLast.retry.status = "returned"

\* C6: fetchWithRetry never makes more attempts than the retry cap, never
\* returns without a result, and raises the failure when the first cap
\* attempts all fail.
GivesUpAtCap ==
    (fetchLast.kind # "null" /\ fetchLast.retry # Null)
        => /\ fetchLast.retry.attempts <= RetryCap
           /\ fetchLast.retry.status \in {"returned", "threw"}
           /\ fetchLast.retry.status = "returned"
                  => fetchLast.retry.value # Null
           /\ fetchLast.retry.failures >= RetryCap
                  => /\ fetchLast.retry.status = "threw"
                     /\ fetchLast.retry.attempts = RetryCap

\* Every attempt failed and fetchWithRetry raised after the last one.
AllAttemptsFailed ==
    /\ fetchLast.kind # "null"
    /\ fetchLast.retry # Null
    /\ fetchLast.retry.failures >= RetryCap
    /\ fetchLast.retry.status = "threw"

StalePoolsReEvaluated ==
    (jobLast.kind = "run"
     /\ jobLast.result = "Pool monitoring completed successfully")
        => \A k \in DOMAIN jobLast.supplied :
              /\ jobLast.at - jobLast.supplied[k].lastCheck > checkInterval
                    => k \in jobLast.evaluated
              /\ jobLast.at - jobLast.supplied[k].lastCheck < checkInterval
                    => k \notin jobLast.evaluated

\* A run that succeeded and left a pool checked over five minutes ago alone.
StalePoolSkipped ==
    /\ jobLast.kind = "run"
    /\ jobLast.result = "Pool monitoring completed successfully"
    /\ \E k \in DOMAIN jobLast.supplied :
          /\ jobLast.at - jobLast.supplied[k].lastCheck > checkInterval
          /\ k \notin jobLast.evaluated

\* C9: a re-evaluation that differs from the prior analysis by more than a
\* threshold makes the job call a position action for the pool.
BreachEmitsAction ==
    (jobLast.kind = "checkPool" /\ jobLast.evaluated /\ jobLast.breach)
        => jobLast.calls # << >>

\* A re-evaluation breached a threshold and the job called no action.
BreachWithoutAction ==
    /\ jobLast.kind = "checkPool"
    /\ jobLast.evaluated
    /\ jobLast.breach
    /\ jobLast.calls = << >>

\* C10: in an invocation of run every pool of the State's monitoredPools
\* entry is in the job's map when it is checked.
MapRebuiltFromState ==
    jobLast.kind = "run" => DOMAIN jobLast.supplied \subseteq jobLast.inMap

\* A run was handed a State with a monitored pool that its job did not hold.
SuppliedPoolNotInMap ==
    /\ jobLast.kind = "run"
    /\ \E k \in DOMAIN jobLast.supplied : k \notin jobLast.inMap

\* C11: when a network request fails, a provider's get returns the string
\* "Unable to fetch <Protocol> opportunities".
NetworkFailureSaysUnable ==
    (provLast.kind = "get" /\ provLast.networkFailed)
        => provLast.result.kind = "unable"

\* A get whose network request failed returned a report all the same.
NetworkFailureReported ==
    /\ provLast.kind = "get"
    /\ provLast.protocol = "Raydium"
    /\ provLast.networkFailed
    /\ provLast.result = Report("Raydium", 0)

CacheErrorIsMiss ==
    (fetchLast.kind = "fetchPools" /\ fetchLast.readFailed)
        => /\ fetchLast.status = "returned"
           /\ fetchLast.retry # Null

\* The cache manager threw on a read and fetchPools threw in its turn.
CacheReadErrorPropagated ==
    /\ fetchLast.kind = "fetchPools"
    /\ fetchLast.readFailed
    /\ fetchLast.status = "threw"
    /\ fetchLast.retry = Null

\* C14: an exception raised inside an action comes back from execute as an
\* envelope with success = false.
RaisedGivesFailureEnvelope ==
    (actLast.kind = "execute" /\ actLast.raised)
        => /\ actLast.result.kind = "envelope"
           /\ ~actLast.result.success

\* A call inside adjustPosition threw and execute returned an envelope with
\* success = true.
RaisedGivesSuccessEnvelope ==
    /\ actLast.kind = "execute"
    /\ actLast.command = "adjustPosition"
    /\ actLast.raised
    /\ actLast.result = Envelope(TRUE)

\* C15: when a required parameter is absent, execute returns "Missing
\* required parameters" or "Missing parameters for <command>" and invokes no
\* method of the action class.
MissingParameterSaysSo ==
    (actLast.kind = "execute" /\ actLast.missing)
        => /\ actLast.result.kind = "text"
           /\ actLast.result.text \in {"Missing required parameters",
                                       "Missing parameters for"}
           /\ ~actLast.called

\* A required parameter was absent and execute answered that the action
\* failed.
MissingParameterSaysFailed ==
    /\ actLast.kind = "execute"
    /\ actLast.module = "raydium"
    /\ actLast.missing
    /\ actLast.result = Text("Failed to execute CLM action", "")

\* C16: getBestDexForPair returns the matching pair with the greatest
\* 0.7 * volume24h + 0.3 * liquidity; (100k, 50k) at 85k beats (80k, 90k) at
\* 83k.
BestDexHasGreatestScore ==
    (dexLast # Null /\ Len(dexLast.matching) > 0)
        => /\ \E i \in 1..Len(dexLast.matching) :
                 dexLast.best = dexLast.matching[i]
           /\ \A i \in 1..Len(dexLast.matching) :
                 dexLast.best.score10 >= dexLast.matching[i].score10
           /\ ( { << dexLast.matching[i].volumeUsd24h,
                     dexLast.matching[i].liquidityUsd >> :
                  i \in 1..Len(dexLast.matching) }
                    = { << 100000, 50000 >>, << 80000, 90000 >> }
                => /\ dexLast.best.volumeUsd24h = 100000
                   /\ dexLast.best.liquidityUsd = 50000
                   /\ dexLast.best.score10 = 850000 )

\* The pair (80k, 90k) came first, (100k, 50k) second, and the second was
\* returned.
SecondPairWon ==
    /\ dexLast # Null
    /\ Len(dexLast.matching) = 2
    /\ dexLast.matching[1].score10 = 830000
    /\ dexLast.matching[2].score10 = 850000
    /\ dexLast.best = dexLast.matching[2]

\* C17: for trading metrics that are not negative (every volume, liquidity,
\* holder count and tax the sources answer), calculateScores gives five
\* sub-scores within [0, 100] and an overall trust score that is 0.2 times
\* their sum, itself within [0, 100].
ScoresWithinRange ==
    trustResult # Null =>
        LET m == trustResult.metrics
            subScores == { m.volumeScore, m.liquidityScore, m.volatilityScore,
                           m.transactionScore, m.securityScore }
        IN  /\ \A score \in subScores : 0 <= score /\ score <= 100
            /\ 5 * m.overallTrustScore
                   = m.volumeScore + m.liquidityScore + m.volatilityScore
                     + m.transactionScore + m.securityScore
            /\ 0 <= m.overallTrustScore /\ m.overallTrustScore <= 100

\* A honeypot with a blacklist, twice the volume that scores 100 and a price
\* that moved 60%: every clamp of calculateScores acted.
ScoresClamped ==
    /\ trustResult # Null
    /\ trustResult.security.isHoneypot
    /\ trustResult.security.hasBlacklist
    /\ trustResult.trading.volume24h = 100000
    /\ trustResult.trading.priceChange24h = -60
    /\ trustResult.metrics.securityScore = 0
    /\ trustResult.metrics.volumeScore = 100
    /\ trustResult.metrics.volatilityScore = 0

OneActionPerInterval ==
    \A x \in issued, y \in issued : x.since = y.since => x.call = y.call

\* Both invocations passed the staleness check on the same lastCheck, both
\* called removeLiquidity, and neither has finished.
BothIssuedRemoval ==
    /\ DOMAIN calls = CallIds
    /\ \A c \in CallIds :
          /\ calls[c].pc = "removing"
          /\ [ call |-> c, since |-> calls[c].since,
               method |-> "removeLiquidity" ] \in issued
    /\ calls[1].since = calls[2].since

\* C21: a cache read of yieldProvider.ts asks the NodeCache first and the
\* cache manager only when the NodeCache has no value; a hit of the cache
\* manager is put into the NodeCache, so the next read of the key within the
\* NodeCache's TTL gives the same value without asking the cache manager.
MemoryBeforePersistent ==
    (fetchLast # Null /\ fetchLast.kind = "tiered" /\ baseClass = "concrete")
        => /\ fetchLast.memoryHad
                  => fetchLast.tier = "memory" /\ ~fetchLast.consulted
           /\ ( /\ fetchLast.prev # Null
                /\ fetchLast.prev.tier = "persistent"
                /\ fetchLast.at - fetchLast.prev.at <= CACHE_TTL * 1000 )
                  => /\ fetchLast.tier = "memory"
                     /\ ~fetchLast.consulted
                     /\ fetchLast.value = fetchLast.prev.value

\* A read served by the NodeCache a minute after the read that found the
\* value in the cache manager.
MemoryServedAfterPersistentHit ==
    /\ fetchLast # Null
    /\ fetchLast.kind = "tiered"
    /\ baseClass = "concrete"
    /\ fetchLast.prev # Null
    /\ fetchLast.prev.tier = "persistent"
    /\ fetchLast.at = fetchLast.prev.at + Minute
    /\ fetchLast.tier = "memory"

AdjustSucceedsOnlyIfBothSteps ==
    (actLast # Null /\ actLast.kind = "adjustPosition" /\ actLast.success)
        => actLast.removeOk /\ actLast.addOk

\* An adjustPosition that answered success = true although its removal step
\* had failed.
AdjustSucceededAfterFailedRemoval ==
    /\ actLast # Null
    /\ actLast.kind = "adjustPosition"
    /\ actLast.success
    /\ ~actLast.removeOk

\* C24: in every state of the vault program, state.totalShares is the sum
\* of the shares of the UserPosition accounts.
TotalSharesIsSumOfShares ==
    vault # Null => vault.totalShares = SumShares(vault, PositionAccounts)

\* A withdrawal that went through and left a position with more shares than
\* the vault has issued.
PositionHoldsMoreThanIssued ==
    /\ vaultLast # Null
    /\ vaultLast.op = "withdraw"
    /\ vaultLast.status = "ok"
    /\ "shares" \in vaultLast.wrapped
    /\ vault.positions[vaultLast.account].shares > vault.totalShares

\* C25: a withdraw of more shares than the position holds is rejected and
\* changes no account.
OverdrawRejected ==
    (vaultLast # Null /\ vaultLast.op = "withdraw"
                      /\ vaultLast.shares > vaultLast.held)
        => vaultLast.status = "failed" /\ ~vaultLast.changed

\* A withdraw from a position that held no share, which went through and
\* paid tokens out of the vault.
OverdrawPaidOut ==
    /\ vaultLast # Null
    /\ vaultLast.op = "withdraw"
    /\ vaultLast.held = 0
    /\ vaultLast.shares > 0
    /\ vaultLast.status = "ok"
    /\ vaultLast.changed

\* C26: a withdraw of all the shares a position holds goes through, and no
\* field leaves the range of u64 in it.
WithdrawAllSucceeds ==
    (vaultLast # Null /\ vaultLast.op = "withdraw" /\ vaultLast.held > 0
                      /\ vaultLast.shares = vaultLast.held)
        => vaultLast.status = "ok" /\ vaultLast.wrapped = {}

\* In a build that checks its arithmetic, a withdraw of all the shares of a
\* position that failed on the subtraction from depositedAmount.
WithdrawAllPanicked ==
    /\ overflowChecks
    /\ vaultLast # Null
    /\ vaultLast.op = "withdraw"
    /\ vaultLast.held > 0
    /\ vaultLast.shares = vaultLast.held
    /\ vaultLast.status = "failed"
    /\ vaultLast.cause = "depositedAmount underflow"

\* C27: when a run that was given base and quote addresses in its message
\* succeeds, the pool of the message is in the State's monitoredPools entry,
\* where the next run will find it.
AddedPoolRecordedInState ==
    (jobLast # Null /\ jobLast.kind = "run"
        /\ jobLast.result = "Pool monitoring completed successfully"
        /\ jobLast.message.baseTokenAddress # ""
        /\ jobLast.message.quoteTokenAddress # "")
        => getPoolKey(jobLast.message.baseTokenAddress,
                      jobLast.message.quoteTokenAddress)
               \in DOMAIN stateMonitoredPools

\* A successful run that added the pool of its message to its own job and
\* left the State's entry without it.
AddedPoolOnlyInDroppedJob ==
    /\ jobLast # Null
    /\ jobLast.kind = "run"
    /\ jobLast.result = "Pool monitoring completed successfully"
    /\ jobLast.message.baseTokenAddress # ""
    /\ jobLast.message.quoteTokenAddress # ""
    /\ getPoolKey(jobLast.message.baseTokenAddress,
                  jobLast.message.quoteTokenAddress) \in jobLast.jobMap
    /\ getPoolKey(jobLast.message.baseTokenAddress,
                  jobLast.message.quoteTokenAddress)
           \notin DOMAIN stateMonitoredPools

\* C28: a checkPool that changes the pool's currentAmm has removed the
\* liquidity from the old venue first, and the removal succeeded.
SwitchRecordedOnlyAfterRemoval ==
    (jobLast # Null /\ jobLast.kind = "checkPool" /\ jobLast.evaluated
        /\ monitoredPools[jobLast.key].currentAmm # jobLast.wasAmm)
        => /\ Len(jobLast.calls) >= 1
           /\ jobLast.calls[1].method = "removeLiquidity"
           /\ jobLast.calls[1].success

\* A checkPool of a pool on raydium whose removeLiquidity failed and which
\* recorded the other venue as currentAmm all the same.
SwitchRecordedAfterFailedRemoval ==
    /\ jobLast # Null
    /\ jobLast.kind = "checkPool"
    /\ jobLast.evaluated
    /\ jobLast.wasAmm = "raydium"
    /\ monitoredPools[jobLast.key].currentAmm = "orca"
    /\ Len(jobLast.calls) >= 1
    /\ jobLast.calls[1].method = "removeLiquidity"
    /\ ~jobLast.calls[1].success

\* C29: after a getLPOpportunities whose fetch of the pools failed, the
\* provider's cache holds no live entry, so that the next call asks again.
FailureNeverCached ==
    (provLast # Null /\ provLast.kind = "getter" /\ provLast.sdkFailed)
        => RayCacheGet(rayCache, now) = Null

\* A getLPOpportunities whose fetch failed while the chain had pools, after
\* which the cache answers with the empty list.
FailureServedFromCache ==
    /\ provLast # Null
    /\ provLast.kind = "getter"
    /\ provLast.sdkFailed
    /\ provLast.pools > 0
    /\ RayCacheGet(rayCache, now) = Pools(<< >>)

\* C30: checkWatchlistAlerts returns one record for each active entry of
\* which a metric exceeds its threshold, in the order of the watchlist.
OneRecordPerExceededEntry ==
    (watchLast # Null /\ watchLast.kind = "check"
                      /\ watchLast.status = "returned")
        => /\ Len(watchLast.returned) = Len(watchLast.exceeded)
           /\ \A i \in 1..Len(watchLast.returned) :
                 watchLast.returned[i].tokenAddress = watchLast.exceeded[i]

\* A checkWatchlistAlerts that returned nothing although metrics of two
\* active entries exceeded their thresholds.
ExceededEntriesNotReturned ==
    /\ watchLast # Null
    /\ watchLast.kind = "check"
    /\ watchLast.status = "returned"
    /\ Len(watchLast.exceeded) = 2
    /\ watchLast.returned = << >>

=============================================================================
